---------------------------- MODULE Spec2Model ----------------------------
(***************************************************************************)
(* RustyCore: the pending-operation registries (ServiceResolver,           *)
(* AdvertisementResolver), the peripheral-role manager actor that waits on *)
(* them, the native delegate callbacks that resolve them, the ATT          *)
(* read/write indication path and the peripheral session actor.            *)
(***************************************************************************)
EXTENDS Integers, Sequences, FiniteSets, TLC

\* ------------------------------------------------------------------ bounds
\* Commands the peripheral-role actor dequeues in one run.
MaxCmds == 2
\* Oneshot channels created in one run (by the actor or by a direct caller).
MaxChans == 2
\* Direct calls on the resolvers' public methods in one run.
MaxCalls == 3

\* Seconds of the timeout(Duration::from_secs(5), receiver) wait.
TimeoutSecs == 5

\* Service UUIDs a command or a native callback may name.
Uuids == {"S1", "S2"}

None == "None"
\* The Option<Sender> None of a resolver slot; senders are channel numbers.
NoSender == 0
Unit == "()"
Empty == "Empty"
\* The Option<String> a completion callback sends: no error, or the
\* localizedDescription of the native NSError.
NoError == "NoError"
NativeErr == "native error"

VARIABLES
    services_resolver,      \* ServiceResolver.0 : HashMap<Uuid, Sender>
    advertisement_resolver, \* AdvertisementResolver.0 : Option<Sender>
    chan,                   \* the oneshot channels created so far
    pc,                     \* position of the peripheral-role actor
    cmds,                   \* commands dequeued so far, with their replies
    waited,                 \* seconds the current wait has lasted
    native_pending,         \* native requests whose completion is not delivered
    cb,                     \* the native completion callback being executed
    delivered,              \* history: the completion callbacks delivered
    call,                   \* last direct call on a resolver and its result
    cached_characteristics, \* PeripheralManager.cached_characteristics (keys)
    att_requests,           \* the ATT requests indicated so far, with replies
    att_pc,                 \* position of the ATT indication callback
    att_batch,              \* requests of the indication being handled
    att_idx,                \* index in att_batch of the request in hand
    events,                 \* public event queue (mpsc, bounded)
    event_rx,               \* the caller's receiving end of the event queue
    peripheral,             \* struct Peripheral: caches and resolvers
    remote_command_rx,      \* commands queued for the session
    remote_commands,        \* commands sent so far, with their replies
    corebluetooth_delegate_rx, \* PeripheralDelegateEvents queued (mpsc)
    cbperipheral,           \* the native CBPeripheral: link, requests in flight
    central_tx,             \* CentralEvents emitted for this peripheral
    discovered,             \* lists handled since the last didConnect
    session_pc,             \* the session's event loop: running or panicked
    central_callbacks,      \* history: the central manager callbacks delivered
    central_rx,             \* the application's receiver of CentralEvents
    manufacturer_payloads,  \* payloads of the ManufacturerDataAdvertisements sent
    state_updates,          \* native state and payload of the StateUpdates sent
    run_calls,              \* calls of run_peripheral_thread / run_central_thread
    once_lock,              \* PERIPHERAL_THREAD / CENTRAL_THREAD : OnceLock<()>
    actor_threads           \* the threads spawned by the calls, per kind

manager_vars == << services_resolver, advertisement_resolver, chan, pc, cmds,
                   waited, native_pending, cb, delivered, call,
                   cached_characteristics >>

att_vars == << att_requests, att_pc, att_batch, att_idx, events, event_rx >>

session_vars == << peripheral, remote_command_rx, remote_commands,
                   corebluetooth_delegate_rx, cbperipheral, central_tx,
                   discovered, session_pc >>

central_vars == << central_callbacks, central_rx, manufacturer_payloads,
                   state_updates >>

launch_vars == << run_calls, once_lock, actor_threads >>

vars == << manager_vars, att_vars, session_vars, central_vars, launch_vars >>

\* ------------------------------------------------- ServiceResolver (mod.rs)
ServiceResolver_new == << >>

ServiceResolver_is_waiting_for(r, service_uuid) == service_uuid \in DOMAIN r

ServiceResolver_has_pending(r) == DOMAIN r # {}

\* HashMap::insert: the entry of service_uuid becomes sender, whatever it was.
ServiceResolver_register(r, service_uuid, sender) ==
    [k \in DOMAIN r \cup {service_uuid} |->
        IF k = service_uuid THEN sender ELSE r[k]]

\* HashMap::remove: the map without the key.
ServiceResolver_remove(r, service_uuid) ==
    [k \in DOMAIN r \ {service_uuid} |-> r[k]]

\* The Option<Sender> that take returns.
ServiceResolver_take_result(r, service_uuid) ==
    IF service_uuid \in DOMAIN r THEN r[service_uuid] ELSE NoSender

\* Faulty variant: take looks the sender up and leaves the entry in the map.
ServiceResolver_take_keeps(r, service_uuid) == r

ServiceResolver_take(r, service_uuid) == ServiceResolver_remove(r, service_uuid)

\* Faulty variant: cancel reports success whatever it found.
ServiceResolver_cancel_result_true(r, service_uuid) == TRUE

\* The bool that cancel returns: remove(..).is_some().
ServiceResolver_cancel_result(r, service_uuid) == service_uuid \in DOMAIN r

\* Faulty variant: cancel leaves the entry in the map.
ServiceResolver_cancel_keeps(r, service_uuid) == r

ServiceResolver_cancel(r, service_uuid) == ServiceResolver_remove(r, service_uuid)

ServiceResolver_count(r) == Cardinality(DOMAIN r)

\* ------------------------------------------- AdvertisementResolver (mod.rs)
AdvertisementResolver_new == NoSender

AdvertisementResolver_is_waiting(a) == a # NoSender

\* self.0 = Some(sender): the slot becomes sender, whatever it was.
AdvertisementResolver_register(a, sender) == sender

\* Option::take: what the slot held; the slot is left None.
AdvertisementResolver_take_result(a) == a

AdvertisementResolver_take(a) == NoSender

\* cancel has no return value.
AdvertisementResolver_cancel_result(a) == Unit

\* Faulty variant: cancel leaves the slot as it is.
AdvertisementResolver_cancel_noop(a) == a

AdvertisementResolver_cancel(a) == NoSender

\* -------------------------------------------------------- oneshot channels
\* A channel is [tx, val, rx, takers, sends]: tx is "live" while the Sender
\* exists unused, "sent" once send consumed it, "dropped" when it was dropped
\* unused; val is the value in the channel (Empty when none); rx is "alive"
\* or "closed". takers and sends are history: who removed the Sender from a
\* resolver, and how many times send was called on it.
NewChan == [tx |-> "live", val |-> Empty, rx |-> "alive",
            takers |-> {}, sends |-> 0]

\* oneshot::Sender::send(v): delivers v when the receiver is alive, fails
\* otherwise; the sender is consumed either way.
OneshotSend(c, v) ==
    IF c.rx = "alive"
    THEN [c EXCEPT !.tx = "sent", !.val = v, !.sends = @ + 1]
    ELSE [c EXCEPT !.tx = "sent", !.sends = @ + 1]

\* Dropping an unused Sender.
OneshotDropTx(c) == IF c.tx = "live" THEN [c EXCEPT !.tx = "dropped"] ELSE c

\* Dropping the Receiver.
OneshotDropRx(c) == [c EXCEPT !.rx = "closed"]

\* chan with the sender s (NoSender allowed) dropped.
DropSender(ch, s) ==
    IF s = NoSender THEN ch ELSE [ch EXCEPT ![s] = OneshotDropTx(ch[s])]

\* chan with the sender s (NoSender allowed) removed from a resolver by who.
Taken(ch, s, who) ==
    IF s = NoSender THEN ch ELSE [ch EXCEPT ![s].takers = @ \cup {who}]

\* The native thread executes no completion callback.
NoCallback == [sender |-> NoSender, val |-> None]

\* The two actors a process can start.
ActorKinds == {"peripheral", "central"}

\* --------------------------------------------------------------- Init
\* ------------------------------------------- Peripheral session (central role)
\* struct Peripheral and its event loop. The remote device's GATT tree is
\* what the native stack reports in the discovery callbacks.
MaxRemoteCommands == 2
\* Callbacks of the central manager delegate in one run (connect and
\* disconnect callbacks of the session are not counted against it).
MaxCentralCallbacks == 2
\* Bytes of manufacturer data in an advertisement.
MaxManufacturerLen == 2
\* Bytes of manufacturer data where its content matters.
MaxManufacturerBytes == 3
\* Calls of run_peripheral_thread / run_central_thread in one run.
MaxRunCalls == 3
\* Iterations of the actor's loop on a closed command queue that are followed.
MaxClosedPolls == 2
MaxConnects == 2
DelegateQueueCap == 2

DeviceServices == {"S1", "S2"}
\* peripheral.services() at didDiscoverServices: the whole table, or a
\* table with the one service that has no characteristic.
ServiceReports == {DeviceServices, {"S2"}}
\* service.includedServices()
DeviceIncludedServices(service) == IF service = "S1" THEN {"S3"} ELSE {}
AllServices ==
    DeviceServices \cup UNION {DeviceIncludedServices(s) : s \in DeviceServices}
\* service.characteristics() as the native stack reports it, in order; the
\* stack may report a UUID more than once, and two services may each have a
\* characteristic of the same UUID.
DeviceCharacteristicList(service) ==
    CASE service = "S1" ->
            << [uuid |-> "C1", properties |-> "Read"],
               [uuid |-> "C1", properties |-> "Write"],
               [uuid |-> "C2", properties |-> "Read"] >>
      [] service = "S3" -> << [uuid |-> "C1", properties |-> "Write"] >>
      [] OTHER -> << >>
DeviceCharacteristics(service) ==
    {DeviceCharacteristicList(service)[i].uuid :
       i \in DOMAIN DeviceCharacteristicList(service)}
DeviceDescriptors(service, characteristic) ==
    IF characteristic = "C1" THEN {"D1"} ELSE {}

OperationKinds ==
    {"ReadCharacteristicValue", "WriteCharacteristicValue",
     "SubscribeCharacteristic"}
OperationKeys == {"C1"}

NoReply == [result |-> None, value |-> None]
Err(description) == [result |-> "Err", value |-> description]
Disconnected == "Device disconnected"

MapExtend(m, n) ==
    [k \in DOMAIN m \cup DOMAIN n |-> IF k \in DOMAIN n THEN n[k] ELSE m[k]]
MapInsert(m, k, v) == MapExtend(m, [x \in {k} |-> v])

Peripheral_new ==
    [cached_services |-> << >>,
     cached_characteristics |-> << >>,
     cached_descriptors |-> << >>,
     service_discovery_resolver |-> NoSender,
     characteristic_discovery_resolver |-> << >>,
     descriptor_discovery_resolver |-> << >>,
     read_resolver |-> << >>,
     write_resolver |-> << >>,
     subscribe_resolver |-> << >>]

CBPeripheral_new == [state |-> "disconnected", requests |-> {}, connects |-> 0,
                     disconnects |-> 0]


Init ==
    /\ services_resolver = ServiceResolver_new
    /\ advertisement_resolver = AdvertisementResolver_new
    /\ chan = << >>
    /\ pc = "idle"
    /\ cmds = << >>
    /\ waited = 0
    /\ native_pending = {}
    /\ cb = NoCallback
    /\ delivered = {}
    /\ call = [n |-> 0, op |-> None, key |-> None, ret |-> None,
               sender |-> NoSender]
    /\ cached_characteristics = {}
    /\ att_requests = << >>
    /\ att_pc = "idle"
    /\ att_batch = << >>
    /\ att_idx = 0
    /\ events = << >>
    /\ event_rx = "open"
    /\ peripheral = Peripheral_new
    /\ remote_command_rx = << >>
    /\ remote_commands = << >>
    /\ corebluetooth_delegate_rx = << >>
    /\ cbperipheral = CBPeripheral_new
    /\ central_tx = << >>
    /\ discovered = {}
    /\ session_pc = "running"
    /\ central_callbacks = << >>
    /\ central_rx = "open"
    /\ manufacturer_payloads = << >>
    /\ state_updates = << >>
    /\ run_calls = << >>
    /\ once_lock = [k \in ActorKinds |-> "uninit"]
    /\ actor_threads = [k \in ActorKinds |-> << >>]

\* ------------------------- PeripheralManagerDelegate (waits and callbacks)
\* Faulty variant: the guard never sees an outstanding registration.
is_waiting_for_advertisement_result_never == FALSE

is_waiting_for_advertisement_result ==
    AdvertisementResolver_is_waiting(advertisement_resolver)

is_waiting_for_service_result(service) ==
    ServiceResolver_is_waiting_for(services_resolver, service)

\* Faulty variant: a native error is reported without its description.
resolve_event_generic(wake, val) ==
    CASE wake = "closed"  -> "Channel error while waiting"
      [] wake = "elapsed" -> "Timeout waiting for event"
      [] wake = "value"   -> IF val = NoError THEN "Ok" ELSE "CoreBluetooth error"

\* resolve_event: the Result<(), Error> of a finished wait. wake is how the
\* timeout(.., receiver) future ended, val the value received.
resolve_event(wake, val) ==
    CASE wake = "closed"  -> "Channel error while waiting"
      [] wake = "elapsed" -> "Timeout waiting for event"
      [] wake = "value"   -> IF val = NoError THEN "Ok" ELSE val

\* How timeout(Duration::from_secs(5), receiver) ends for channel c after w
\* seconds: the receiver is polled first, the deadline second. "pending"
\* when neither is ready.
TimeoutPoll(c, w) ==
    CASE c.val # Empty            -> "value"
      [] c.val = Empty /\ c.tx # "live" -> "closed"
      [] c.val = Empty /\ c.tx = "live" /\ w >= TimeoutSecs -> "elapsed"
      [] OTHER                    -> "pending"

CurCmd == cmds[Len(cmds)]

\* Where command number op stands: the actor's position while it is the
\* command being processed, "replied" once its reply was sent.
Phase(op) == IF op = Len(cmds) /\ pc # "idle" THEN pc ELSE "replied"

\* A registration made by a command for key is outstanding: the actor is
\* between that command's register and its cancel.
Outstanding(key) ==
    /\ pc \in {"adv_wait", "adv_woke", "svc_wait", "svc_woke"}
    /\ CurCmd.key = key

\* The record of the delivery of completion p, which found sender s.
Delivery(p, s) ==
    [op |-> p.op, key |-> p.key, found |-> s, phase |-> Phase(p.op),
     outstanding |-> Outstanding(p.key)]

\* A command as dequeued: sends counts the sends on its responder, native
\* says whether a native call was made for it, rx is the caller's end of
\* the responder.
NewCmd(kind, key, reply) ==
    [kind |-> kind, key |-> key, ch |-> NoSender, wake |-> "none",
     reply |-> reply, sends |-> 0, native |-> FALSE, rx |-> "alive"]

\* The caller still holds the receiver of its responder, or has dropped it.
ResponderRx == {"alive", "dropped"}

\* Faulty variant: an error outcome is not sent back.
Respond_ok_only(c, result) ==
    IF result = "Ok" THEN [c EXCEPT !.reply = result, !.sends = @ + 1] ELSE c

\* let _ = responder.send(result): one send, whose failure (receiver
\* dropped) is ignored.
Respond(c, result) == [c EXCEPT !.reply = result, !.sends = @ + 1]

\* The characteristics of the service a caller adds.
ServiceCharacteristics(service) == IF service = "S1" THEN {"C1"} ELSE {}
\* Characteristic UUIDs an UpdateCharacteristic may name.
CharacteristicUuids == {"C1", "C2"}

\* ------------------------------------ PeripheralManager (the actor's loop)
\* start_advertising up to the native startAdvertising call: rejected while
\* an advertising registration is outstanding.
start_advertising ==
    /\ pc = "idle"
    /\ Len(cmds) < MaxCmds
    /\ IF is_waiting_for_advertisement_result
       THEN /\ \E rx \in ResponderRx :
                 cmds' = Append(cmds,
                     Respond([NewCmd("StartAdvertising", "advertising",
                                     "NoReply") EXCEPT !.rx = rx],
                             "Already in progress"))
            /\ UNCHANGED << pc, native_pending >>
       ELSE /\ \E rx \in ResponderRx :
                 cmds' = Append(cmds,
                     [NewCmd("StartAdvertising", "advertising", "NoReply")
                        EXCEPT !.rx = rx, !.native = TRUE])
            /\ native_pending' = native_pending \cup
                   {[kind |-> "adv", key |-> "advertising", op |-> Len(cmds) + 1]}
            /\ pc' = "adv_issued"
    /\ UNCHANGED << launch_vars, central_vars, att_vars, session_vars, cached_characteristics, services_resolver, advertisement_resolver, chan, waited,
                    cb, delivered, call >>

\* ensure_advertisement_started, lines 209-214: the channel is created and
\* its sender registered under the lock.
ensure_advertisement_started_register ==
    /\ pc = "adv_issued"
    /\ Len(chan) < MaxChans
    /\ chan' = Append(DropSender(chan, advertisement_resolver), NewChan)
    /\ advertisement_resolver' =
           AdvertisementResolver_register(advertisement_resolver, Len(chan) + 1)
    /\ cmds' = [cmds EXCEPT ![Len(cmds)].ch = Len(chan) + 1]
    /\ waited' = 0
    /\ pc' = "adv_wait"
    /\ UNCHANGED << launch_vars, central_vars, att_vars, session_vars, cached_characteristics, services_resolver, native_pending, cb, delivered, call >>

\* One second passes while the actor waits.
Tick ==
    /\ pc \in {"adv_wait", "svc_wait"}
    /\ waited < TimeoutSecs
    /\ waited' = waited + 1
    /\ UNCHANGED << launch_vars, central_vars, att_vars, session_vars, cached_characteristics, services_resolver, advertisement_resolver, chan, pc, cmds,
                    native_pending, cb, delivered, call >>

\* The await of timeout(..) returns; the future, and the receiver in it, is
\* dropped.
Wake(from, to) ==
    /\ pc = from
    /\ TimeoutPoll(chan[CurCmd.ch], waited) # "pending"
    /\ cmds' = [cmds EXCEPT ![Len(cmds)].wake = TimeoutPoll(chan[CurCmd.ch], waited)]
    /\ chan' = [chan EXCEPT ![CurCmd.ch] = OneshotDropRx(@)]
    /\ pc' = to
    /\ UNCHANGED << launch_vars, central_vars, att_vars, session_vars, cached_characteristics, services_resolver, advertisement_resolver, waited,
                    native_pending, cb, delivered, call >>

ensure_advertisement_started_wake == Wake("adv_wait", "adv_woke")

\* ensure_advertisement_started, lines 218-223, and the responder.send of
\* handle_event: cancel under the lock, then the result is sent back.
ensure_advertisement_started_cancel ==
    /\ pc = "adv_woke"
    /\ chan' = DropSender(Taken(chan, advertisement_resolver, "cancel"),
                          advertisement_resolver)
    /\ advertisement_resolver' = AdvertisementResolver_cancel(advertisement_resolver)
    /\ cmds' = [cmds EXCEPT ![Len(cmds)] =
                    Respond(@, resolve_event(CurCmd.wake, chan[CurCmd.ch].val))]
    /\ pc' = "idle"
    /\ UNCHANGED << launch_vars, central_vars, att_vars, session_vars, cached_characteristics, services_resolver, waited, native_pending, cb, delivered, call >>

\* add_service up to the native addService call.
add_service(service) ==
    /\ pc = "idle"
    /\ Len(cmds) < MaxCmds
    /\ IF is_waiting_for_service_result(service)
       THEN /\ \E rx \in ResponderRx :
                 cmds' = Append(cmds,
                     Respond([NewCmd("AddService", service, "NoReply")
                                EXCEPT !.rx = rx],
                             "Already in progress"))
            /\ UNCHANGED << pc, native_pending, cached_characteristics >>
       ELSE /\ \E rx \in ResponderRx :
                 cmds' = Append(cmds,
                     [NewCmd("AddService", service, "NoReply")
                        EXCEPT !.rx = rx, !.native = TRUE])
            /\ cached_characteristics' =
                 cached_characteristics \cup ServiceCharacteristics(service)
            /\ native_pending' = native_pending \cup
                   {[kind |-> "svc", key |-> service, op |-> Len(cmds) + 1]}
            /\ pc' = "svc_issued"
    /\ UNCHANGED << launch_vars, central_vars, att_vars, session_vars, services_resolver, advertisement_resolver, chan, waited,
                    cb, delivered, call >>

\* ensure_service_added, lines 235-240.
ensure_service_added_register ==
    /\ pc = "svc_issued"
    /\ Len(chan) < MaxChans
    /\ chan' = Append(DropSender(chan,
                   ServiceResolver_take_result(services_resolver, CurCmd.key)),
                   NewChan)
    /\ services_resolver' =
           ServiceResolver_register(services_resolver, CurCmd.key, Len(chan) + 1)
    /\ cmds' = [cmds EXCEPT ![Len(cmds)].ch = Len(chan) + 1]
    /\ waited' = 0
    /\ pc' = "svc_wait"
    /\ UNCHANGED << launch_vars, central_vars, att_vars, session_vars, cached_characteristics, advertisement_resolver, native_pending, cb, delivered, call >>

ensure_service_added_wake == Wake("svc_wait", "svc_woke")

\* ensure_service_added, lines 244-250, and the responder.send of handle_event.
ensure_service_added_cancel ==
    /\ pc = "svc_woke"
    /\ LET s == ServiceResolver_take_result(services_resolver, CurCmd.key)
       IN  chan' = DropSender(Taken(chan, s, "cancel"), s)
    /\ services_resolver' = ServiceResolver_cancel(services_resolver, CurCmd.key)
    /\ cmds' = [cmds EXCEPT ![Len(cmds)] =
                    Respond(@, resolve_event(CurCmd.wake, chan[CurCmd.ch].val))]
    /\ pc' = "idle"
    /\ UNCHANGED << launch_vars, central_vars, att_vars, session_vars, cached_characteristics, advertisement_resolver, waited, native_pending, cb, delivered, call >>

\* handle_event, the IsPowered / IsAdvertising / StopAdvertising arms: the
\* native state is read (or stopAdvertising called) and the result sent.
handle_event_immediate(kind) ==
    /\ pc = "idle"
    /\ Len(cmds) < MaxCmds
    /\ \E rx \in ResponderRx :
          cmds' = Append(cmds,
              Respond([NewCmd(kind, None, "NoReply")
                         EXCEPT !.rx = rx,
                                !.native = (kind = "StopAdvertising")],
                      "Ok"))
    /\ UNCHANGED << launch_vars, central_vars, att_vars, session_vars, cached_characteristics, services_resolver,
                    advertisement_resolver, chan, pc, waited, native_pending,
                    cb, delivered, call >>

\* update_characteristic: the native updateValue is called when the
\* characteristic is cached; Ok(()) is returned either way.
update_characteristic(characteristic) ==
    /\ pc = "idle"
    /\ Len(cmds) < MaxCmds
    /\ \E rx \in ResponderRx :
          cmds' = Append(cmds,
              Respond([NewCmd("UpdateCharacteristic", characteristic, "NoReply")
                         EXCEPT !.rx = rx,
                                !.native =
                                   (characteristic \in cached_characteristics)],
                      "Ok"))
    /\ UNCHANGED << launch_vars, central_vars, att_vars, session_vars, cached_characteristics, services_resolver,
                    advertisement_resolver, chan, pc, waited, native_pending,
                    cb, delivered, call >>

\* ------------------------- native completion callbacks (the CBqueue thread)
\* peripheralManagerDidStartAdvertising:error: up to the end of the locked
\* section: the sender is taken; with none the callback is over.
delegate_peripheralmanagerdidstartadvertising_error(p, error_desc) ==
    /\ cb = NoCallback
    /\ p \in native_pending /\ p.kind = "adv"
    /\ native_pending' = native_pending \ {p}
    /\ LET s == AdvertisementResolver_take_result(advertisement_resolver)
       IN  /\ chan' = Taken(chan, s, "callback")
           /\ cb' = IF s = NoSender THEN NoCallback
                     ELSE [sender |-> s, val |-> error_desc]
           /\ delivered' = delivered \cup {Delivery(p, s)}
    /\ advertisement_resolver' = AdvertisementResolver_take(advertisement_resolver)
    /\ UNCHANGED << launch_vars, central_vars, att_vars, session_vars, cached_characteristics, services_resolver, pc, cmds, waited, call >>

\* peripheralManager:didAddService:error: up to the end of the locked section.
delegate_peripheralmanager_didaddservice_error(p, error_desc) ==
    /\ cb = NoCallback
    /\ p \in native_pending /\ p.kind = "svc"
    /\ native_pending' = native_pending \ {p}
    /\ LET s == ServiceResolver_take_result(services_resolver, p.key)
       IN  /\ chan' = Taken(chan, s, "callback")
           /\ cb' = IF s = NoSender THEN NoCallback
                     ELSE [sender |-> s, val |-> error_desc]
           /\ delivered' = delivered \cup {Delivery(p, s)}
    /\ services_resolver' = ServiceResolver_take(services_resolver, p.key)
    /\ UNCHANGED << launch_vars, central_vars, att_vars, session_vars, cached_characteristics, advertisement_resolver, pc, cmds, waited, call >>

\* let _ = sender.send(error_desc), after the lock is released.
delegate_send ==
    /\ cb # NoCallback
    /\ chan' = [chan EXCEPT ![cb.sender] = OneshotSend(@, cb.val)]
    /\ cb' = NoCallback
    /\ UNCHANGED << launch_vars, central_vars, att_vars, session_vars, cached_characteristics, services_resolver, advertisement_resolver, pc, cmds,
                    waited, native_pending, delivered, call >>

\* ------------------------------ direct calls on the resolvers' pub methods
\* A caller that holds the resolvers (IVars' pub Arc<Mutex<..>> fields) calls
\* one method under the lock. call records the method, its key and what it
\* returned: "()", "true", "false", "None", or "Some" with the sender; a
\* sender returned by take is dropped by the caller.
Called(op, key, ret, s) ==
    call' = [n |-> call.n + 1, op |-> op, key |-> key, ret |-> ret,
             sender |-> s]

\* An Option<Sender> and a bool as call records them.
OptionStr(s) == IF s = NoSender THEN "None" ELSE "Some"
BoolStr(b) == IF b THEN "true" ELSE "false"

call_ServiceResolver_register(service_uuid) ==
    /\ call.n < MaxCalls
    /\ Len(chan) < MaxChans
    /\ chan' = Append(DropSender(chan,
                   ServiceResolver_take_result(services_resolver, service_uuid)),
                   NewChan)
    /\ services_resolver' =
           ServiceResolver_register(services_resolver, service_uuid, Len(chan) + 1)
    /\ Called("ServiceResolver.register", service_uuid, Unit, NoSender)
    /\ UNCHANGED << launch_vars, central_vars, att_vars, session_vars, cached_characteristics, advertisement_resolver, pc, cmds, waited, native_pending,
                    cb, delivered >>

call_ServiceResolver_take(service_uuid) ==
    /\ call.n < MaxCalls
    /\ LET s == ServiceResolver_take_result(services_resolver, service_uuid)
       IN  /\ chan' = DropSender(Taken(chan, s, "caller"), s)
           /\ Called("ServiceResolver.take", service_uuid, OptionStr(s), s)
    /\ services_resolver' = ServiceResolver_take(services_resolver, service_uuid)
    /\ UNCHANGED << launch_vars, central_vars, att_vars, session_vars, cached_characteristics, advertisement_resolver, pc, cmds, waited, native_pending,
                    cb, delivered >>

call_ServiceResolver_cancel(service_uuid) ==
    /\ call.n < MaxCalls
    /\ LET s == ServiceResolver_take_result(services_resolver, service_uuid)
       IN  chan' = DropSender(Taken(chan, s, "caller"), s)
    /\ Called("ServiceResolver.cancel", service_uuid,
              BoolStr(ServiceResolver_cancel_result(services_resolver, service_uuid)),
              NoSender)
    /\ services_resolver' = ServiceResolver_cancel(services_resolver, service_uuid)
    /\ UNCHANGED << launch_vars, central_vars, att_vars, session_vars, cached_characteristics, advertisement_resolver, pc, cmds, waited, native_pending,
                    cb, delivered >>

call_AdvertisementResolver_register ==
    /\ call.n < MaxCalls
    /\ Len(chan) < MaxChans
    /\ chan' = Append(DropSender(chan, advertisement_resolver), NewChan)
    /\ advertisement_resolver' =
           AdvertisementResolver_register(advertisement_resolver, Len(chan) + 1)
    /\ Called("AdvertisementResolver.register", "advertising", Unit, NoSender)
    /\ UNCHANGED << launch_vars, central_vars, att_vars, session_vars, cached_characteristics, services_resolver, pc, cmds, waited, native_pending,
                    cb, delivered >>

call_AdvertisementResolver_take ==
    /\ call.n < MaxCalls
    /\ LET s == AdvertisementResolver_take_result(advertisement_resolver)
       IN  /\ chan' = DropSender(Taken(chan, s, "caller"), s)
           /\ Called("AdvertisementResolver.take", "advertising", OptionStr(s), s)
    /\ advertisement_resolver' = AdvertisementResolver_take(advertisement_resolver)
    /\ UNCHANGED << launch_vars, central_vars, att_vars, session_vars, cached_characteristics, services_resolver, pc, cmds, waited, native_pending,
                    cb, delivered >>

call_AdvertisementResolver_cancel ==
    /\ call.n < MaxCalls
    /\ chan' = DropSender(Taken(chan, advertisement_resolver, "caller"),
                          advertisement_resolver)
    /\ Called("AdvertisementResolver.cancel", "advertising",
              AdvertisementResolver_cancel_result(advertisement_resolver), NoSender)
    /\ advertisement_resolver' = AdvertisementResolver_cancel(advertisement_resolver)
    /\ UNCHANGED << launch_vars, central_vars, att_vars, session_vars, cached_characteristics, services_resolver, pc, cmds, waited, native_pending,
                    cb, delivered >>

Next ==
    \/ start_advertising
    \/ ensure_advertisement_started_register
    \/ ensure_advertisement_started_wake
    \/ ensure_advertisement_started_cancel
    \/ \E service \in Uuids : add_service(service)
    \/ ensure_service_added_register
    \/ ensure_service_added_wake
    \/ ensure_service_added_cancel
    \/ Tick
    \/ \E p \in native_pending, e \in {NoError, NativeErr} :
          delegate_peripheralmanagerdidstartadvertising_error(p, e)
    \/ \E p \in native_pending, e \in {NoError, NativeErr} :
          delegate_peripheralmanager_didaddservice_error(p, e)
    \/ delegate_send
    \/ \E kind \in {"IsPowered", "IsAdvertising", "StopAdvertising"} :
          handle_event_immediate(kind)
    \/ \E c \in CharacteristicUuids : update_characteristic(c)

Spec == Init /\ [][Next]_vars

\* The resolvers as a component: the actor as above and a caller that may
\* call any pub method of either resolver at any moment, while the native
\* stack delivers no completion and no deadline expires.
NextResolver ==
    \/ start_advertising
    \/ ensure_advertisement_started_register
    \/ ensure_advertisement_started_wake
    \/ ensure_advertisement_started_cancel
    \/ \E service \in Uuids : add_service(service)
    \/ ensure_service_added_register
    \/ ensure_service_added_wake
    \/ ensure_service_added_cancel
    \/ \E k \in Uuids : call_ServiceResolver_register(k)
    \/ \E k \in Uuids : call_ServiceResolver_take(k)
    \/ \E k \in Uuids : call_ServiceResolver_cancel(k)
    \/ call_AdvertisementResolver_register
    \/ call_AdvertisementResolver_take
    \/ call_AdvertisementResolver_cancel

SpecResolver == Init /\ [][NextResolver]_vars


\* --------------------------------- ATT read / write indications (GATT server)
\* The native stack delivers an indication on its serial queue; the callback
\* runs send_read_request / send_write_request inside executor::block_on, so
\* the callback occupies the queue until the request in hand is finished.
MaxAttRequests == 3
MaxBatch == 2
EventQueueCap == 1

RequestResponse ==
    {"Success", "InvalidHandle", "RequestNotSupported", "InvalidOffset",
     "UnlikelyError"}

\* Faulty variant: every failure is reported as an unlikely error.
to_cb_error_generic(response) ==
    IF response = "Success"
    THEN "CBATTError::Success"
    ELSE "CBATTError::UnlikelyError"

to_cb_error(response) ==
    CASE response = "Success" -> "CBATTError::Success"
      [] response = "InvalidHandle" -> "CBATTError::InvalidHandle"
      [] response = "RequestNotSupported" -> "CBATTError::RequestNotSupported"
      [] response = "InvalidOffset" -> "CBATTError::InvalidOffset"
      [] response = "UnlikelyError" -> "CBATTError::UnlikelyError"

\* let mut cb_att_error = CBATTError::InvalidHandle;
DefaultAttError == "CBATTError::InvalidHandle"

\* A CBATTRequest as the callback sees it: service tells whether
\* request.characteristic().service() is Some; responder is the state of the
\* oneshot sender travelling in the public event; answer and answer_value
\* are the caller's response and (for a read) value; value is the request's
\* value as set by setValue; replies are the respondToRequest calls made
\* for it.
NewAttRequest(kind, service) ==
    [kind |-> kind, service |-> service, responder |-> "none",
     answer |-> None, answer_value |-> None, value |-> None,
     replies |-> << >>]

\* The values a caller may answer a read with (ReadRequestResponse.value).
AttValues == {"v1", "v2"}

Batches(kind) ==
    IF kind = "read"
    THEN {<< NewAttRequest(kind, s) >> : s \in BOOLEAN}
    ELSE UNION {[1..n -> {NewAttRequest(kind, s) : s \in BOOLEAN}] :
                n \in 1..MaxBatch}

\* The for loop of didReceiveWriteRequests from position j on: a request
\* without a service returns from the callback, leaving the rest of the
\* batch; past the end the callback returns.
\* Faulty variant: the loop goes on to the request after the next one.
NextInBatch_skipping(reqs, batch, j) ==
    IF j + 1 > Len(batch) \/ ~reqs[batch[j + 1]].service
    THEN [pc |-> "idle", idx |-> 0, batch |-> << >>]
    ELSE [pc |-> "send", idx |-> j + 1, batch |-> batch]

NextInBatch(reqs, batch, j) ==
    IF j > Len(batch) \/ ~reqs[batch[j]].service
    THEN [pc |-> "idle", idx |-> 0, batch |-> << >>]
    ELSE [pc |-> "send", idx |-> j, batch |-> batch]

Indication(kind, batch) ==
    /\ att_pc = "idle"
    /\ Len(att_requests) + Len(batch) <= MaxAttRequests
    /\ LET reqs == att_requests \o batch
           ids == [i \in 1..Len(batch) |-> Len(att_requests) + i]
           nxt == NextInBatch(reqs, ids, 1)
       IN  /\ att_requests' = reqs
           /\ att_pc' = nxt.pc
           /\ att_idx' = nxt.idx
           /\ att_batch' = nxt.batch
    /\ UNCHANGED << launch_vars, central_vars, manager_vars, session_vars, events, event_rx >>

delegate_peripheralmanager_didreceivereadrequest(batch) ==
    Indication("read", batch)

delegate_peripheralmanager_didreceivewriterequests(batch) ==
    Indication("write", batch)

CurReq == att_batch[att_idx]

\* sender.send(event).await: an error when the receiver is gone (the
\* function logs and returns without responding), suspended while the queue
\* is full, otherwise the event with its responder is queued.
SendRequest(kind) ==
    /\ att_pc = "send"
    /\ att_requests[CurReq].kind = kind
    /\ IF event_rx = "closed"
       THEN LET nxt == NextInBatch(att_requests, att_batch, att_idx + 1)
            IN  /\ att_pc' = nxt.pc
                /\ att_idx' = nxt.idx
                /\ att_batch' = nxt.batch
                /\ UNCHANGED << att_requests, events >>
       ELSE /\ Len(events) < EventQueueCap
            /\ events' = Append(events, CurReq)
            /\ att_requests' =
                 [att_requests EXCEPT ![CurReq].responder = "queued"]
            /\ att_pc' = "await"
            /\ UNCHANGED << att_idx, att_batch >>
    /\ UNCHANGED << launch_vars, central_vars, manager_vars, session_vars, event_rx >>

\* resp_rx.await returns once the responder was used or dropped; the code
\* starts from the default and replaces it by the caller's answer.
RespondRequest(kind) ==
    /\ att_pc = "await"
    /\ att_requests[CurReq].kind = kind
    /\ att_requests[CurReq].responder \in {"answered", "dropped"}
    /\ LET r == att_requests[CurReq]
           cb_att_error == IF r.responder = "answered"
                           THEN to_cb_error(r.answer)
                           ELSE DefaultAttError
           reqs == [att_requests EXCEPT
                      ![CurReq].value =
                          IF r.responder = "answered" /\ kind = "read"
                          THEN r.answer_value
                          ELSE @,
                      ![CurReq].replies = Append(@, cb_att_error)]
           nxt == NextInBatch(reqs, att_batch, att_idx + 1)
       IN  /\ att_requests' = reqs
           /\ att_pc' = nxt.pc
           /\ att_idx' = nxt.idx
           /\ att_batch' = nxt.batch
    /\ UNCHANGED << launch_vars, central_vars, manager_vars, session_vars, events, event_rx >>

send_read_request_send == SendRequest("read")
send_read_request_respond == RespondRequest("read")
send_write_request_send == SendRequest("write")
send_write_request_respond == RespondRequest("write")

\* The application: it receives events, answers or drops a responder it
\* holds, keeps it, or drops the receiver (which drops the queued events
\* and the responders in them).
caller_recv ==
    /\ event_rx = "open"
    /\ events # << >>
    /\ events' = Tail(events)
    /\ att_requests' = [att_requests EXCEPT ![Head(events)].responder = "held"]
    /\ UNCHANGED << launch_vars, central_vars, manager_vars, session_vars, att_pc, att_batch, att_idx, event_rx >>

caller_respond(i, response, value) ==
    /\ i \in DOMAIN att_requests
    /\ att_requests[i].responder = "held"
    /\ value \in IF att_requests[i].kind = "read" THEN AttValues ELSE {None}
    /\ att_requests' = [att_requests EXCEPT ![i].responder = "answered",
                                            ![i].answer = response,
                                            ![i].answer_value = value]
    /\ UNCHANGED << launch_vars, central_vars, manager_vars, session_vars, att_pc, att_batch, att_idx, events, event_rx >>

caller_drop_responder(i) ==
    /\ i \in DOMAIN att_requests
    /\ att_requests[i].responder = "held"
    /\ att_requests' = [att_requests EXCEPT ![i].responder = "dropped"]
    /\ UNCHANGED << launch_vars, central_vars, manager_vars, session_vars, att_pc, att_batch, att_idx, events, event_rx >>

caller_drop_receiver ==
    /\ event_rx = "open"
    /\ event_rx' = "closed"
    /\ events' = << >>
    /\ att_requests' =
         [i \in DOMAIN att_requests |->
            IF att_requests[i].responder = "queued"
            THEN [att_requests[i] EXCEPT !.responder = "dropped"]
            ELSE att_requests[i]]
    /\ UNCHANGED << launch_vars, central_vars, manager_vars, session_vars, att_pc, att_batch, att_idx >>

NextAtt ==
    \/ \E batch \in Batches("read") :
          delegate_peripheralmanager_didreceivereadrequest(batch)
    \/ \E batch \in Batches("write") :
          delegate_peripheralmanager_didreceivewriterequests(batch)
    \/ send_read_request_send
    \/ send_read_request_respond
    \/ send_write_request_send
    \/ send_write_request_respond
    \/ caller_recv
    \/ \E i \in 1..MaxAttRequests, response \in RequestResponse :
          \E value \in AttValues \cup {None} : caller_respond(i, response, value)
    \/ \E i \in 1..MaxAttRequests : caller_drop_responder(i)
    \/ caller_drop_receiver

SpecAtt == Init /\ [][NextAtt]_vars

\* The delegate's own steps run whenever they can; the application is under
\* no obligation.
FairSpecAtt ==
    /\ SpecAtt
    /\ WF_vars(send_read_request_send)
    /\ WF_vars(send_read_request_respond)
    /\ WF_vars(send_write_request_send)
    /\ WF_vars(send_write_request_respond)


\* ---------------------------------------- Peripheral session: event loop
\* A request toward (or a list received from) the native stack.
Req(kind, service, characteristic) == << kind, service, characteristic >>

\* The resolver map an operation is correlated through.
ResolverOf(kind) ==
    CASE kind = "ReadCharacteristicValue" -> "read_resolver"
      [] kind = "WriteCharacteristicValue" -> "write_resolver"
      [] kind = "SubscribeCharacteristic" -> "subscribe_resolver"

\* A request made of the native peripheral; it takes it while the
\* link is up.
Issue(requests) ==
    IF cbperipheral.state = "connected"
    THEN [cbperipheral EXCEPT !.requests = @ \cup requests]
    ELSE cbperipheral

\* The application sends a command with a single-use responder.
caller_send_command(kind, key) ==
    /\ session_pc = "running"
    /\ Len(remote_commands) < MaxRemoteCommands
    /\ remote_commands' =
         Append(remote_commands,
                [kind |-> kind, key |-> key, reply |-> NoReply,
                 registered |-> FALSE, epoch |-> 0])
    /\ remote_command_rx' = Append(remote_command_rx, Len(remote_commands) + 1)
    /\ UNCHANGED << launch_vars, central_vars, manager_vars, att_vars, session_pc, peripheral,
                    corebluetooth_delegate_rx, cbperipheral, central_tx,
                    discovered >>

Register(id) ==
    [remote_commands EXCEPT ![id].registered = TRUE,
                            ![id].epoch = cbperipheral.disconnects]

Reply(id, reply) == [remote_commands EXCEPT ![id].reply = reply]

\* handle_event, ConnectDevice arm (todo!() in the source): register the
\* responder, then ask the native stack to connect.
handle_event_ConnectDevice ==
    /\ session_pc = "running"
    /\ remote_command_rx # << >>
    /\ LET id == Head(remote_command_rx) IN
       /\ remote_commands[id].kind = "ConnectDevice"
       /\ IF peripheral.service_discovery_resolver # NoSender
          THEN /\ remote_commands' = Reply(id, Err("Already in progress"))
               /\ UNCHANGED << peripheral, cbperipheral >>
          ELSE /\ peripheral' =
                    [peripheral EXCEPT !.service_discovery_resolver = id]
               /\ remote_commands' = Register(id)
               /\ cbperipheral' =
                    [cbperipheral EXCEPT !.requests = @ \cup {Req("connect", None, None)}]
    /\ remote_command_rx' = Tail(remote_command_rx)
    /\ UNCHANGED << launch_vars, central_vars, manager_vars, att_vars, session_pc, corebluetooth_delegate_rx,
                    central_tx, discovered >>

\* The responder of a command that was dropped without an answer.
Dropped == [result |-> "Dropped", value |-> None]

\* todo!(): the panic ends the task that runs the loop and drops the
\* session with its queues and resolver maps; every responder not yet
\* answered, queued or registered, is dropped.
Todo ==
    /\ session_pc' = "panicked"
    /\ remote_commands' =
         [i \in DOMAIN remote_commands |->
            IF remote_commands[i].reply = NoReply
            THEN [remote_commands[i] EXCEPT !.reply = Dropped]
            ELSE remote_commands[i]]
    /\ remote_command_rx' = << >>
    /\ corebluetooth_delegate_rx' = << >>
    /\ UNCHANGED << launch_vars, central_vars, manager_vars, att_vars, peripheral, cbperipheral,
                    central_tx, discovered >>

\* handle_event, IsConnected arm: todo!().
handle_event_IsConnected ==
    /\ session_pc = "running"
    /\ remote_command_rx # << >>
    /\ remote_commands[Head(remote_command_rx)].kind = "IsConnected"
    /\ Todo

\* handle_event, DisconnectDevice arm: todo!().
handle_event_DisconnectDevice ==
    /\ session_pc = "running"
    /\ remote_command_rx # << >>
    /\ remote_commands[Head(remote_command_rx)].kind = "DisconnectDevice"
    /\ Todo

\* handle_event, read / write / subscribe arms (todo!() in the source):
\* register the responder under the characteristic, then issue the request.
handle_event_Operation ==
    /\ session_pc = "running"
    /\ remote_command_rx # << >>
    /\ LET id == Head(remote_command_rx)
           c == remote_commands[id]
       IN
       /\ c.kind \in OperationKinds
       /\ LET field == ResolverOf(c.kind) IN
          IF c.key \in DOMAIN peripheral[field]
          THEN /\ remote_commands' = Reply(id, Err("Already in progress"))
               /\ UNCHANGED peripheral
          ELSE /\ peripheral' =
                    [peripheral EXCEPT
                       ![field] = MapInsert(peripheral[field], c.key, id)]
               /\ remote_commands' = Register(id)
       /\ cbperipheral' =
            IF c.key \in DOMAIN peripheral[ResolverOf(c.kind)]
            THEN cbperipheral
            ELSE Issue({Req(c.kind, None, c.key)})
    /\ remote_command_rx' = Tail(remote_command_rx)
    /\ UNCHANGED << launch_vars, central_vars, manager_vars, att_vars, session_pc, corebluetooth_delegate_rx,
                    central_tx, discovered >>

\* -- native callbacks of the central manager delegate
\* The advertisement dictionary of a discovered peripheral: whether it has
\* manufacturer data and of how many bytes, service data, service UUIDs.
\* One manufacturer data of each length: the bytes 1, 2, ...
ManufacturerSample(n) == [i \in 1..n |-> i]
AdvData ==
    {[has_manufacturer |-> h, manufacturer_len |-> n,
      manufacturer_data |-> ManufacturerSample(n),
      has_service_data |-> d, has_services |-> s] :
        h \in BOOLEAN, n \in 0..MaxManufacturerLen,
        d \in BOOLEAN, s \in BOOLEAN}
AdvertisementData == {a \in AdvData : ~a.has_manufacturer => a.manufacturer_len = 0}
NoAdvData == [has_manufacturer |-> FALSE, manufacturer_len |-> 0,
              manufacturer_data |-> << >>,
              has_service_data |-> FALSE, has_services |-> FALSE]

\* The values a byte of manufacturer data takes here.
ByteValues == {0, 1, 255}
RECURSIVE ByteStrings(_)
ByteStrings(n) ==
    IF n = 0
    THEN {<< >>}
    ELSE LET shorter == ByteStrings(n - 1)
         IN shorter \cup {Append(b, v) : b \in {s \in shorter : Len(s) = n - 1},
                                          v \in ByteValues}
\* Advertisements that carry manufacturer data only, of every content.
ManufacturerAdvertisements ==
    {[has_manufacturer |-> TRUE, manufacturer_len |-> Len(b),
      manufacturer_data |-> b,
      has_service_data |-> FALSE, has_services |-> FALSE] :
        b \in ByteStrings(MaxManufacturerBytes)}

\* The callback as the history keeps it.
CentralCallback(kind, adv_data) == [kind |-> kind, adv_data |-> adv_data]

\* CentralManagerDelegate::send_event for the events of one callback, in
\* order: delivered while the receiver exists, otherwise logged and lost.
CentralDelegate_send_event(sent) ==
    IF central_rx = "open" THEN central_tx \o sent ELSE central_tx

\* A callback of the central manager delegate that sends these events;
\* payloads are the payloads of the manufacturer data events among them,
\* updates the payloads of the StateUpdate events.
CentralDelegateCallback(kind, adv_data, sent, payloads, updates) ==
    /\ Len(central_callbacks) < MaxCentralCallbacks
    /\ central_callbacks' =
         Append(central_callbacks, CentralCallback(kind, adv_data))
    /\ central_tx' = CentralDelegate_send_event(sent)
    /\ manufacturer_payloads' =
         IF central_rx = "open"
         THEN manufacturer_payloads \o payloads
         ELSE manufacturer_payloads
    /\ state_updates' =
         IF central_rx = "open"
         THEN state_updates \o updates
         ELSE state_updates
    /\ UNCHANGED << launch_vars, manager_vars, att_vars, central_rx, session_pc,
                    peripheral, remote_command_rx, remote_commands,
                    corebluetooth_delegate_rx, cbperipheral, discovered >>

\* The values central.state() returns: the six named CBManagerStates and
\* one value of the integer type that none of them names.
CBManagerState ==
    {"CBManagerStateUnknown", "CBManagerStateResetting",
     "CBManagerStateUnsupported", "CBManagerStateUnauthorized",
     "CBManagerStatePoweredOff", "CBManagerStatePoweredOn",
     "CBManagerStateOther"}

\* enum CentralState: the variants the event type declares.
CentralState == {"Unknown", "PoweredOn", "PoweredOff"}

\* convert_state: the match arms as written, three of them naming a
\* variant that CentralState does not declare.
convert_state(cb_state) ==
    CASE cb_state = "CBManagerStateUnknown" -> "Unknown"
      [] cb_state = "CBManagerStateResetting" -> "Resetting"
      [] cb_state = "CBManagerStateUnsupported" -> "Unsupported"
      [] cb_state = "CBManagerStateUnauthorized" -> "Unauthorized"
      [] cb_state = "CBManagerStatePoweredOff" -> "PoweredOff"
      [] cb_state = "CBManagerStatePoweredOn" -> "PoweredOn"
      [] OTHER -> "Unknown"

delegate_centralmanagerdidupdatestate(cb_state) ==
    CentralDelegateCallback("didUpdateState", NoAdvData, << "StateUpdate" >>,
                            << >>,
                            << [native |-> cb_state,
                                state |-> convert_state(cb_state)] >>)

delegate_centralmanager_didfailtoconnectperipheral_error ==
    CentralDelegateCallback("didFailToConnectPeripheral", NoAdvData,
                            << "DeviceConnectionFailed" >>, << >>, << >>)

\* Faulty variant: manufacturer data of any length is reported.
ManufacturerDataEvents_any(adv_data) ==
    IF adv_data.has_manufacturer
    THEN << "ManufacturerDataAdvertisement" >>
    ELSE << >>

\* The manufacturer data is reported when it holds the two bytes of the
\* manufacturer id.
ManufacturerDataEvents(adv_data) ==
    IF adv_data.has_manufacturer /\ adv_data.manufacturer_len >= 2
    THEN << "ManufacturerDataAdvertisement" >>
    ELSE << >>

\* Faulty variant: the id is read with the high byte first.
u16_from_be_bytes(bytes) == bytes[1] * 256 + bytes[2]

\* u16::from_le_bytes of a two-byte slice.
u16_from_le_bytes(bytes) == bytes[1] + bytes[2] * 256

\* split_at(2) of the manufacturer data: the id from the first two bytes,
\* the data from the rest.
ManufacturerPayloads(adv_data) ==
    IF adv_data.has_manufacturer /\ Len(adv_data.manufacturer_data) >= 2
    THEN << [manufacturer_id |->
                u16_from_le_bytes(SubSeq(adv_data.manufacturer_data, 1, 2)),
             manufacturer_data |->
                SubSeq(adv_data.manufacturer_data, 3,
                       Len(adv_data.manufacturer_data))] >>
    ELSE << >>

\* Faulty variant: the fragments are reported before the peripheral.
DiscoveredPeripheralEvents_fragments_first(adv_data) ==
    ManufacturerDataEvents(adv_data)
      \o (IF adv_data.has_service_data
          THEN << "ServiceDataAdvertisement" >> ELSE << >>)
      \o (IF adv_data.has_services
          THEN << "ServicesAdvertisement" >> ELSE << >>)
      \o << "DeviceDiscovered" >>

\* The send_event calls of the callback, in the order of the code.
DiscoveredPeripheralEvents(adv_data) ==
    << "DeviceDiscovered" >>
      \o ManufacturerDataEvents(adv_data)
      \o (IF adv_data.has_service_data
          THEN << "ServiceDataAdvertisement" >> ELSE << >>)
      \o (IF adv_data.has_services
          THEN << "ServicesAdvertisement" >> ELSE << >>)

delegate_centralmanager_diddiscoverperipheral_advertisementdata_rssi(adv_data) ==
    CentralDelegateCallback("didDiscoverPeripheral", adv_data,
                            DiscoveredPeripheralEvents(adv_data),
                            ManufacturerPayloads(adv_data), << >>)

\* The application drops its receiver of CentralEvents.
caller_drop_central_receiver ==
    /\ central_rx = "open"
    /\ central_rx' = "closed"
    /\ UNCHANGED << launch_vars, manager_vars, att_vars, session_vars,
                    central_callbacks, manufacturer_payloads, state_updates >>

delegate_centralmanager_didconnectperipheral ==
    /\ Req("connect", None, None) \in cbperipheral.requests
    /\ cbperipheral.connects < MaxConnects
    /\ cbperipheral' =
         [cbperipheral EXCEPT
            !.state = "connected",
            !.connects = @ + 1,
            !.requests = (@ \ {Req("connect", None, None)})
                           \cup {Req("services", None, None)}]
    /\ central_tx' = CentralDelegate_send_event(<< "DeviceConnected" >>)
    /\ central_callbacks' =
         Append(central_callbacks, CentralCallback("didConnectPeripheral", NoAdvData))
    /\ discovered' = {}
    /\ UNCHANGED << launch_vars, central_rx, manufacturer_payloads, state_updates, manager_vars, att_vars, session_pc, peripheral, remote_command_rx,
                    remote_commands, corebluetooth_delegate_rx >>

delegate_centralmanager_diddisconnectperipheral_error ==
    /\ cbperipheral.state = "connected"
    /\ cbperipheral' =
         [cbperipheral EXCEPT !.state = "disconnected",
                              !.disconnects = @ + 1,
                              !.requests = {}]
    /\ central_tx' = CentralDelegate_send_event(<< "DeviceDisconnected" >>)
    /\ central_callbacks' =
         Append(central_callbacks,
                CentralCallback("didDisconnectPeripheral", NoAdvData))
    /\ UNCHANGED << launch_vars, central_rx, manufacturer_payloads, state_updates, manager_vars, att_vars, session_pc, peripheral, remote_command_rx,
                    remote_commands, corebluetooth_delegate_rx, discovered >>

\* -- native callbacks of the peripheral delegate
DelegateEvent(kind, service, characteristic, items, error) ==
    [kind |-> kind, service_uuid |-> service,
     characteristic_uuid |-> characteristic, items |-> items, error |-> error]

\* Faulty variant: a send that gives up when the queue is full (try_send)
\* instead of waiting for room.
Delegate_send_event_lossy(request, event) ==
    /\ request \in cbperipheral.requests
    /\ IF session_pc = "panicked"
          \/ Len(corebluetooth_delegate_rx) >= DelegateQueueCap
       THEN UNCHANGED corebluetooth_delegate_rx
       ELSE corebluetooth_delegate_rx' =
               Append(corebluetooth_delegate_rx, event)
    /\ cbperipheral' = [cbperipheral EXCEPT !.requests = @ \ {request}]
    /\ UNCHANGED << launch_vars, central_vars, manager_vars, att_vars, session_pc, peripheral, remote_command_rx,
                    remote_commands, central_tx, discovered >>

\* PeripheralDelegate::send_event, for the request it completes.
Delegate_send_event(request, event) ==
    /\ request \in cbperipheral.requests
    /\ IF session_pc = "panicked"
       THEN UNCHANGED corebluetooth_delegate_rx
       ELSE /\ Len(corebluetooth_delegate_rx) < DelegateQueueCap
            /\ corebluetooth_delegate_rx' =
                 Append(corebluetooth_delegate_rx, event)
    /\ cbperipheral' = [cbperipheral EXCEPT !.requests = @ \ {request}]
    /\ UNCHANGED << launch_vars, central_vars, manager_vars, att_vars, session_pc, peripheral, remote_command_rx,
                    remote_commands, central_tx, discovered >>

\* A callback that returns without an event: the request it answers is over.
Delegate_return(request) ==
    /\ request \in cbperipheral.requests
    /\ cbperipheral' = [cbperipheral EXCEPT !.requests = @ \ {request}]
    /\ UNCHANGED << launch_vars, central_vars, manager_vars, att_vars, session_pc, peripheral, remote_command_rx,
                    remote_commands, corebluetooth_delegate_rx, central_tx,
                    discovered >>

\* characteristic.service()
DeviceServiceOf(characteristic) ==
    CHOOSE s \in DeviceServices : characteristic \in DeviceCharacteristics(s)

\* peripheral:didUpdateValueForCharacteristic:error: an event only when
\* there is no error.
delegate_peripheral_didupdatevalueforcharacteristic_error(characteristic, error) ==
    IF error = NoError
    THEN Delegate_send_event(
             Req("ReadCharacteristicValue", None, characteristic),
             DelegateEvent("CharacteristicNotified",
                           DeviceServiceOf(characteristic), characteristic,
                           << >>, NoError))
    ELSE Delegate_return(Req("ReadCharacteristicValue", None, characteristic))

\* peripheral:didWriteValueForCharacteristic:error: an event only when
\* there is no error.
delegate_peripheral_didwritevalueforcharacteristic_error(characteristic, error) ==
    IF error = NoError
    THEN Delegate_send_event(
             Req("WriteCharacteristicValue", None, characteristic),
             DelegateEvent("CharacteristicWritten",
                           DeviceServiceOf(characteristic), characteristic,
                           << >>, NoError))
    ELSE Delegate_return(Req("WriteCharacteristicValue", None, characteristic))

\* peripheral:didUpdateNotificationStateForCharacteristic:error: the error
\* is not looked at.
delegate_peripheral_didupdatenotificationstateforcharacteristic_error(characteristic, error) ==
    Delegate_send_event(
        Req("SubscribeCharacteristic", None, characteristic),
        DelegateEvent("CharacteristicSubscribed",
                      DeviceServiceOf(characteristic), characteristic,
                      << >>, NoError))

\* On an error the native object carries no list (unwrap_or_default).
Reported(error, items) == IF error = NoError THEN items ELSE {}

delegate_peripheral_diddiscoverservices(services, error) ==
    Delegate_send_event(
        Req("services", None, None),
        DelegateEvent("DiscoveredServices", None, None,
                      [s \in Reported(error, services) |-> << s >>],
                      error))

delegate_peripheral_diddiscoverincludedservicesforservice_error(service, error) ==
    /\ Req("included", service, None) \in cbperipheral.requests
    /\ cbperipheral' =
         [cbperipheral EXCEPT
            !.requests =
               (@ \ {Req("included", service, None)})
                 \cup {Req("characteristics", s, None) :
                         s \in Reported(error, DeviceIncludedServices(service))}]
    /\ UNCHANGED << launch_vars, central_vars, manager_vars, att_vars, session_pc, peripheral, remote_command_rx,
                    remote_commands, corebluetooth_delegate_rx, central_tx,
                    discovered >>

\* for c in chars { characteristics.insert(uuid, c) }
RECURSIVE InsertCharacteristics(_, _, _)
InsertCharacteristics(characteristics, service, chars) ==
    IF chars = << >>
    THEN characteristics
    ELSE InsertCharacteristics(
             MapInsert(characteristics, Head(chars).uuid,
                       << service, Head(chars).uuid, Head(chars).properties >>),
             service, Tail(chars))

ReportedList(error, chars) == IF error = NoError THEN chars ELSE << >>

delegate_peripheral_diddiscovercharacteristicsforservice_error(service, error) ==
    Delegate_send_event(
        Req("characteristics", service, None),
        DelegateEvent("DiscoveredCharacteristics", service, None,
                      InsertCharacteristics(
                          << >>, service,
                          ReportedList(error, DeviceCharacteristicList(service))),
                      error))

delegate_peripheral_diddiscoverdescriptorsforcharacteristic_error(service, characteristic, error) ==
    Delegate_send_event(
        Req("descriptors", service, characteristic),
        DelegateEvent("DiscoveredCharacteristicDescriptors", service,
                      characteristic,
                      [d \in Reported(error,
                                      DeviceDescriptors(service, characteristic))
                         |-> << service, characteristic, d >>],
                      error))

\* -- handle_event, delegate arm
DelegateHead(kind) ==
    /\ session_pc = "running"
    /\ corebluetooth_delegate_rx # << >>
    /\ Head(corebluetooth_delegate_rx).kind = kind

\* Faulty variant: the included services of a service are not asked for.
DiscoverForServices_characteristics_only(services) ==
    {Req("characteristics", s, None) : s \in services}

\* for service in services.values(): discoverCharacteristics_forService and
\* discoverIncludedServices_forService.
DiscoverForServices(services) ==
    UNION {{Req("characteristics", s, None),
            Req("included", s, None)} : s \in services}

discovered_services ==
    /\ DelegateHead("DiscoveredServices")
    /\ LET services == Head(corebluetooth_delegate_rx).items IN
       /\ cbperipheral' = Issue(DiscoverForServices(DOMAIN services))
       /\ peripheral' =
            [peripheral EXCEPT !.cached_services = MapExtend(@, services)]
    /\ discovered' = discovered \cup {Req("services", None, None)}
    /\ corebluetooth_delegate_rx' = Tail(corebluetooth_delegate_rx)
    /\ UNCHANGED << launch_vars, central_vars, manager_vars, att_vars, session_pc, remote_command_rx,
                    remote_commands, central_tx >>

\* Faulty variant: the handler insists that the service is a cached one
\* (as check_discovered insists on its own precondition) and panics otherwise.
discovered_characteristics_strict ==
    /\ DelegateHead("DiscoveredCharacteristics")
    /\ LET ev == Head(corebluetooth_delegate_rx)
           characteristics == ev.items
       IN
       IF ev.service_uuid \in DOMAIN peripheral.cached_services
       THEN /\ cbperipheral' =
                 Issue({Req("descriptors", ev.service_uuid, c) :
                          c \in DOMAIN characteristics})
            /\ peripheral' =
                 [peripheral EXCEPT
                    !.cached_characteristics = MapExtend(@, characteristics)]
            /\ discovered' =
                 discovered \cup {Req("characteristics", ev.service_uuid, None)}
            /\ corebluetooth_delegate_rx' = Tail(corebluetooth_delegate_rx)
            /\ UNCHANGED session_pc
       ELSE /\ session_pc' = "panicked"
            /\ corebluetooth_delegate_rx' = << >>
            /\ UNCHANGED << cbperipheral, peripheral, discovered >>
    /\ UNCHANGED << launch_vars, central_vars, manager_vars, att_vars, remote_command_rx,
                    remote_commands, central_tx >>

discovered_characteristics ==
    /\ DelegateHead("DiscoveredCharacteristics")
    /\ LET ev == Head(corebluetooth_delegate_rx)
           characteristics == ev.items
       IN
       /\ cbperipheral' =
            Issue({Req("descriptors", ev.service_uuid, c) :
                     c \in DOMAIN characteristics})
       /\ peripheral' =
            [peripheral EXCEPT
               !.cached_characteristics = MapExtend(@, characteristics)]
       /\ discovered' =
            discovered \cup {Req("characteristics", ev.service_uuid, None)}
    /\ corebluetooth_delegate_rx' = Tail(corebluetooth_delegate_rx)
    /\ UNCHANGED << launch_vars, central_vars, manager_vars, att_vars, session_pc, remote_command_rx,
                    remote_commands, central_tx >>

discovered_descriptors ==
    /\ DelegateHead("DiscoveredCharacteristicDescriptors")
    /\ LET ev == Head(corebluetooth_delegate_rx) IN
       /\ peripheral' =
            [peripheral EXCEPT
               !.cached_descriptors = MapExtend(@, ev.items)]
       /\ discovered' =
            discovered \cup
              {Req("descriptors", ev.service_uuid, ev.characteristic_uuid)}
    /\ corebluetooth_delegate_rx' = Tail(corebluetooth_delegate_rx)
    /\ UNCHANGED << launch_vars, central_vars, manager_vars, att_vars, session_pc, remote_command_rx,
                    remote_commands, cbperipheral, central_tx >>

\* handle_event, the delegate arms for subscription, value and write
\* events: todo!().
handle_event_delegate_todo ==
    /\ session_pc = "running"
    /\ corebluetooth_delegate_rx # << >>
    /\ Head(corebluetooth_delegate_rx).kind \in
          {"CharacteristicSubscribed", "CharacteristicNotified",
           "CharacteristicWritten"}
    /\ Todo

NextSession ==
    \/ caller_send_command("ConnectDevice", None)
    \/ \E kind \in OperationKinds, key \in OperationKeys :
          caller_send_command(kind, key)
    \/ handle_event_ConnectDevice
    \/ handle_event_Operation
    \/ caller_send_command("IsConnected", None)
    \/ handle_event_IsConnected
    \/ caller_send_command("DisconnectDevice", None)
    \/ handle_event_DisconnectDevice
    \/ delegate_centralmanager_didconnectperipheral
    \/ delegate_centralmanager_diddisconnectperipheral_error
    \/ \E services \in ServiceReports, e \in {NoError, NativeErr} :
          delegate_peripheral_diddiscoverservices(services, e)
    \/ \E s \in DeviceServices, e \in {NoError, NativeErr} :
          delegate_peripheral_diddiscoverincludedservicesforservice_error(s, e)
    \/ \E s \in AllServices, e \in {NoError, NativeErr} :
          delegate_peripheral_diddiscovercharacteristicsforservice_error(s, e)
    \/ \E s \in AllServices, e \in {NoError, NativeErr} :
          \E c \in DeviceCharacteristics(s) :
             delegate_peripheral_diddiscoverdescriptorsforcharacteristic_error(s, c, e)
    \/ discovered_services
    \/ discovered_characteristics
    \/ discovered_descriptors

SpecSession == Init /\ [][NextSession]_vars

\* ------------------------- characteristic operations and their completions
\* The session on a connected peripheral: read, write and subscribe
\* commands, and the native completion callbacks of their requests.
NextOperation ==
    \/ caller_send_command("ConnectDevice", None)
    \/ handle_event_ConnectDevice
    \/ delegate_centralmanager_didconnectperipheral
    \/ delegate_centralmanager_diddisconnectperipheral_error
    \/ \E kind \in OperationKinds, key \in OperationKeys :
          caller_send_command(kind, key)
    \/ handle_event_Operation
    \/ caller_send_command("IsConnected", None)
    \/ handle_event_IsConnected
    \/ \E c \in OperationKeys, e \in {NoError, NativeErr} :
          delegate_peripheral_didupdatevalueforcharacteristic_error(c, e)
    \/ \E c \in OperationKeys, e \in {NoError, NativeErr} :
          delegate_peripheral_didwritevalueforcharacteristic_error(c, e)
    \/ \E c \in OperationKeys, e \in {NoError, NativeErr} :
          delegate_peripheral_didupdatenotificationstateforcharacteristic_error(c, e)
    \/ handle_event_delegate_todo

SpecOperation == Init /\ [][NextOperation]_vars

\* ------------------------------------------ the central manager delegate
\* The adapter here is switched on or off; every other native state is
\* taken by the state callback alone below.
NextCentral ==
    \/ \E cb_state \in {"CBManagerStatePoweredOn", "CBManagerStatePoweredOff"} :
          delegate_centralmanagerdidupdatestate(cb_state)
    \/ delegate_centralmanager_didfailtoconnectperipheral_error
    \/ \E adv_data \in AdvertisementData :
          delegate_centralmanager_diddiscoverperipheral_advertisementdata_rssi(adv_data)
    \/ caller_send_command("ConnectDevice", None)
    \/ handle_event_ConnectDevice
    \/ delegate_centralmanager_didconnectperipheral
    \/ delegate_centralmanager_diddisconnectperipheral_error
    \/ caller_drop_central_receiver

SpecCentral == Init /\ [][NextCentral]_vars

\* The discovery callback alone, over manufacturer data of every content.
NextManufacturer ==
    \E adv_data \in ManufacturerAdvertisements \cup {NoAdvData} :
        delegate_centralmanager_diddiscoverperipheral_advertisementdata_rssi(adv_data)

SpecManufacturer == Init /\ [][NextManufacturer]_vars

\* The state callback alone, over every native state, with an application
\* that may drop its receiver.
NextAdapterState ==
    \/ \E cb_state \in CBManagerState :
          delegate_centralmanagerdidupdatestate(cb_state)
    \/ caller_drop_central_receiver

SpecAdapterState == Init /\ [][NextAdapterState]_vars

\* --------------------------------------------- starting the actor threads
\* A call of run_peripheral_thread / run_central_thread as the history keeps
\* it: its kind, where it stands, and whether a call of the same kind had
\* already returned when it was made.
RunCall(kind) ==
    [kind |-> kind, pc |-> "called",
     started_after_return |->
        \E i \in 1..Len(run_calls) :
            run_calls[i].kind = kind /\ run_calls[i].pc = "returned"]

\* Some thread calls run_peripheral_thread(sender, listener) or
\* run_central_thread(sender, listener).
run_thread(kind) ==
    /\ Len(run_calls) < MaxRunCalls
    /\ run_calls' = Append(run_calls, RunCall(kind))
    /\ UNCHANGED << manager_vars, att_vars, session_vars, central_vars,
                    once_lock, actor_threads >>

\* Faulty variant: a check of the cell that is not atomic with claiming it.
OnceLock_may_init_unsynchronised(kind) ==
    once_lock[kind] # "done"

\* OnceLock::get_or_init runs the closure of the one caller that finds the
\* cell uninitialised; the test and the claim are one atomic step.
OnceLock_may_init(kind) ==
    once_lock[kind] = "uninit"

\* get_or_init: this call is the one that initialises the cell.
get_or_init_enter(run_call) ==
    /\ run_call \in 1..Len(run_calls)
    /\ run_calls[run_call].pc = "called"
    /\ OnceLock_may_init(run_calls[run_call].kind)
    /\ once_lock' = [once_lock EXCEPT ![run_calls[run_call].kind] = "running"]
    /\ run_calls' = [run_calls EXCEPT ![run_call].pc = "init"]
    /\ UNCHANGED << manager_vars, att_vars, session_vars, central_vars,
                    actor_threads >>

\* The closure: thread::spawn of the actor thread, which owns the sender and
\* listener of this call; the cell is set and the call returns.
get_or_init_closure(run_call) ==
    /\ run_call \in 1..Len(run_calls)
    /\ run_calls[run_call].pc = "init"
    /\ actor_threads' =
         [actor_threads EXCEPT ![run_calls[run_call].kind] =
              Append(@, [channels |-> run_call, state |-> "spawned",
                         command_tx |-> "open", closed_polls |-> 0])]
    /\ once_lock' = [once_lock EXCEPT ![run_calls[run_call].kind] = "done"]
    /\ run_calls' = [run_calls EXCEPT ![run_call].pc = "returned"]
    /\ UNCHANGED << manager_vars, att_vars, session_vars, central_vars >>

\* get_or_init on an initialised cell returns at once; its sender and
\* listener are dropped.  While another call initialises, the call waits.
get_or_init_initialised(run_call) ==
    /\ run_call \in 1..Len(run_calls)
    /\ run_calls[run_call].pc = "called"
    /\ once_lock[run_calls[run_call].kind] = "done"
    /\ run_calls' = [run_calls EXCEPT ![run_call].pc = "returned"]
    /\ UNCHANGED << manager_vars, att_vars, session_vars, central_vars,
                    once_lock, actor_threads >>

\* The spawned thread builds its runtime: on success it constructs the actor
\* over its channels and serves them for ever, on failure it logs and ends.
actor_thread_run(kind, runtime_ok) ==
    /\ \E i \in 1..Len(actor_threads[kind]) :
         /\ actor_threads[kind][i].state = "spawned"
         /\ actor_threads' =
              [actor_threads EXCEPT ![kind][i].state =
                   IF runtime_ok THEN "serving" ELSE "exited"]
    /\ UNCHANGED << manager_vars, att_vars, session_vars, central_vars,
                    run_calls, once_lock >>

\* The application drops every sender of the command queue the actor
\* thread of this kind listens on; no command is left in the queue.
caller_drop_command_senders(kind) ==
    /\ \E i \in 1..Len(actor_threads[kind]) :
         /\ actor_threads[kind][i].command_tx = "open"
         /\ actor_threads' =
              [actor_threads EXCEPT ![kind][i].command_tx = "closed"]
    /\ UNCHANGED << manager_vars, att_vars, session_vars, central_vars,
                    run_calls, once_lock >>

\* PeripheralManager::handle_event on the closed, empty queue: recv()
\* returns None at once, the `if let Some` body is skipped, handle_event
\* returns and the `loop` of the thread calls it again.
handle_event_closed ==
    /\ \E i \in 1..Len(actor_threads["peripheral"]) :
         /\ actor_threads["peripheral"][i].state = "serving"
         /\ actor_threads["peripheral"][i].command_tx = "closed"
         /\ actor_threads["peripheral"][i].closed_polls < MaxClosedPolls
         /\ actor_threads' =
              [actor_threads EXCEPT !["peripheral"][i].closed_polls = @ + 1]
    /\ UNCHANGED << manager_vars, att_vars, session_vars, central_vars,
                    run_calls, once_lock >>

NextLaunch ==
    \/ \E kind \in ActorKinds : run_thread(kind)
    \/ \E run_call \in 1..MaxRunCalls : get_or_init_enter(run_call)
    \/ \E run_call \in 1..MaxRunCalls : get_or_init_closure(run_call)
    \/ \E run_call \in 1..MaxRunCalls : get_or_init_initialised(run_call)
    \/ \E kind \in ActorKinds, runtime_ok \in BOOLEAN :
          actor_thread_run(kind, runtime_ok)
    \/ \E kind \in ActorKinds : caller_drop_command_senders(kind)
    \/ handle_event_closed

SpecLaunch == Init /\ [][NextLaunch]_vars


\* ------------------------------------------------------------------ claims
Timeout == "Timeout waiting for event"
AlreadyInProgress == "Already in progress"

\* A step is a direct call of method op.
IsCall(op) == call'.n = call.n + 1 /\ call'.op = op

\* C1: a register call for a key the resolver is waiting for
\* returns an already-in-progress outcome and leaves the stored entry as it was.
C1_RegisterRejectsDuplicate ==
    [][ /\ ( /\ IsCall("ServiceResolver.register")
             /\ ServiceResolver_is_waiting_for(services_resolver, call'.key) )
           => ( /\ call'.ret = AlreadyInProgress
                /\ services_resolver' = services_resolver )
        /\ ( /\ IsCall("AdvertisementResolver.register")
             /\ AdvertisementResolver_is_waiting(advertisement_resolver) )
           => ( /\ call'.ret = AlreadyInProgress
                /\ advertisement_resolver' = advertisement_resolver )
      ]_vars

\* The senders held by a resolver.
Registered ==
    {services_resolver[k] : k \in DOMAIN services_resolver}
        \cup ({advertisement_resolver} \ {NoSender})

\* The commands that registered and whose wait is over and answered.
Finished == {n \in 1..Len(cmds) :
                cmds[n].ch # NoSender /\ cmds[n].reply # "NoReply"}

\* C2: every registration made by StartAdvertising or AddService is resolved
\* exactly once, by a native success callback, a native error callback or the
\* timeout, whatever the interleaving of the callback thread and the actor:
\* the sender leaves the resolver at most once (taken by the callback or
\* cancelled by the actor, never both), send is called on it at most once and
\* only by the callback that took it, and once it left the resolver no entry
\* is found for it again; a finished wait ended either on the value that
\* callback sent or on the deadline with no value, and its reply says which.
C2_ExactlyOnceResolution ==
    /\ \A i \in 1..Len(chan) :
          /\ Cardinality(chan[i].takers) <= 1
          /\ chan[i].sends <= 1
          /\ chan[i].sends = 1 => chan[i].takers = {"callback"}
          /\ chan[i].takers # {} => i \notin Registered
    /\ \A n \in Finished :
          LET c == chan[cmds[n].ch]
          IN  /\ Cardinality(c.takers) = 1
              /\ cmds[n].ch \notin Registered
              /\ \/ /\ cmds[n].wake = "value"
                    /\ c.sends = 1 /\ c.val \in {NoError, NativeErr}
                    /\ cmds[n].reply = IF c.val = NoError THEN "Ok" ELSE NativeErr
                 \/ /\ cmds[n].wake = "elapsed"
                    /\ c.val = Empty
                    /\ cmds[n].reply = Timeout

\* C2 witness: the race itself: the callback took the sender of a wait that the
\* deadline ended, and its send came too late.
C2_Witness ==
    \E n \in Finished :
        /\ cmds[n].wake = "elapsed"
        /\ chan[cmds[n].ch].takers = {"callback"}
        /\ chan[cmds[n].ch].sends = 1

\* C5: a StartAdvertising or AddService whose wait ends on the 5-second
\* deadline with no completion received replies the timeout error; once it
\* has replied its key is no longer registered (unless a later command for
\* the key has registered meanwhile), and no later command for the same key
\* is rejected as already in progress.
C5_TimeoutFreesSlot ==
    \A n \in Finished :
        cmds[n].wake = "elapsed" =>
            /\ cmds[n].reply = Timeout
            /\ ~Outstanding(cmds[n].key) =>
                  IF cmds[n].kind = "StartAdvertising"
                  THEN ~is_waiting_for_advertisement_result
                  ELSE ~is_waiting_for_service_result(cmds[n].key)
            /\ \A m \in (n + 1)..Len(cmds) :
                  ( cmds[m].kind = cmds[n].kind /\ cmds[m].key = cmds[n].key )
                      => cmds[m].reply # AlreadyInProgress

\* C5 witness: a command timed out and the next command for the same key was
\* accepted and registered.
C5_Witness ==
    \E n \in Finished : \E m \in (n + 1)..Len(cmds) :
        /\ cmds[n].reply = Timeout
        /\ cmds[m].kind = cmds[n].kind /\ cmds[m].key = cmds[n].key
        /\ cmds[m].ch # NoSender

\* The delivery of the completion of a command that has already replied
\* Timeout.
LateDelivery(p) ==
    /\ p \in native_pending /\ p \notin native_pending'
    /\ cmds[p.op].reply = Timeout

\* What C6 says of a step: nothing taken, nothing to send, registry unchanged.
DropsNotification ==
    /\ cb' = NoCallback
    /\ services_resolver' = services_resolver
    /\ advertisement_resolver' = advertisement_resolver
    /\ chan' = chan

\* A reply of Timeout stays Timeout.
TimeoutStays ==
    \A n \in 1..Len(cmds) : cmds[n].reply = Timeout => cmds'[n].reply = Timeout

\* C6: every completion callback that arrives after its command
\* timed out and cancelled finds nothing on take, sends nothing and leaves the
\* registry unchanged, and the command's outcome stays Timeout.
C6_LateCallbackFindsNothing ==
    [][ /\ \A p \in native_pending : LateDelivery(p) => DropsNotification
        /\ TimeoutStays ]_vars

\* The part of C6 the code keeps: a completion callback that arrives after its command timed
\* out and cancelled, while no later command for the same key has a
\* registration outstanding, finds nothing on take, sends nothing and leaves
\* the registry unchanged; the timed-out command's outcome stays Timeout in
\* every case.
C6_LateCallbackDropped ==
    [][ /\ \A p \in native_pending :
              ( LateDelivery(p) /\ ~Outstanding(p.key) ) => DropsNotification
        /\ TimeoutStays ]_vars

\* A late completion was delivered and found nothing.
C6_Witness ==
    \E d \in delivered :
        /\ d.phase = "replied" /\ cmds[d.op].reply = Timeout
        /\ ~d.outstanding /\ d.found = NoSender
        /\ cb = NoCallback

\* A step is the actor dequeuing a command of this kind.
Dequeues(kind) == Len(cmds') = Len(cmds) + 1 /\ cmds'[Len(cmds')].kind = kind

\* What C7 says of a rejected command: the reply, no native request, the
\* registration kept.
Rejected ==
    /\ cmds'[Len(cmds')].reply = AlreadyInProgress
    /\ native_pending' = native_pending
    /\ services_resolver' = services_resolver
    /\ advertisement_resolver' = advertisement_resolver
    /\ chan' = chan
    /\ pc' = pc

\* C7: a StartAdvertising dequeued while an advertising registration is
\* outstanding, and an AddService(S) dequeued while a registration for S is
\* outstanding, is answered 'Already in progress', issues no native request
\* and leaves the outstanding registration in place.
C7_RejectsReentry ==
    [][ /\ ( Dequeues("StartAdvertising") /\ advertisement_resolver # NoSender )
           => Rejected
        /\ \A s \in Uuids :
              ( /\ Dequeues("AddService") /\ cmds'[Len(cmds')].key = s
                /\ s \in DOMAIN services_resolver )
              => Rejected
      ]_vars

\* C7 witness: both kinds of command have been rejected.
C7_Witness ==
    /\ \E n \in 1..Len(cmds) :
          cmds[n].kind = "StartAdvertising" /\ cmds[n].reply = AlreadyInProgress
          /\ advertisement_resolver # NoSender
    /\ \E n \in 1..Len(cmds) :
          cmds[n].kind = "AddService" /\ cmds[n].reply = AlreadyInProgress
          /\ cmds[n].key \in DOMAIN services_resolver

\* The entries of the keys other than service_uuid are what they were.
OthersKept(service_uuid) ==
    /\ DOMAIN services_resolver' \ {service_uuid}
          = DOMAIN services_resolver \ {service_uuid}
    /\ \A k \in DOMAIN services_resolver \ {service_uuid} :
          services_resolver'[k] = services_resolver[k]
    /\ advertisement_resolver' = advertisement_resolver

\* take and cancel of ServiceResolver and take of AdvertisementResolver: the
\* key is absent afterwards, a call on an absent key changes nothing and
\* returns not-found, and no other key is touched.
IdempotentTakeCancel ==
    /\ IsCall("ServiceResolver.take") =>
          /\ call'.key \notin DOMAIN services_resolver'
          /\ OthersKept(call'.key)
          /\ call'.key \notin DOMAIN services_resolver =>
                services_resolver' = services_resolver /\ call'.ret = "None"
    /\ IsCall("ServiceResolver.cancel") =>
          /\ call'.key \notin DOMAIN services_resolver'
          /\ OthersKept(call'.key)
          /\ call'.key \notin DOMAIN services_resolver =>
                services_resolver' = services_resolver /\ call'.ret = "false"
    /\ IsCall("AdvertisementResolver.take") =>
          /\ advertisement_resolver' = NoSender
          /\ services_resolver' = services_resolver
          /\ advertisement_resolver = NoSender => call'.ret = "None"
    /\ IsCall("AdvertisementResolver.cancel") =>
          /\ advertisement_resolver' = NoSender
          /\ services_resolver' = services_resolver

Replies(i) == att_requests[i].replies

\* C3: every ATT read indication and every request of a write-indication
\* batch gets exactly one respondToRequest: never more than one at any
\* moment, and exactly one once the indication callback has returned,
\* whatever the caller did with the responder and whatever the state of the
\* public event channel.
C3_ExactlyOneResponse ==
    /\ \A i \in DOMAIN att_requests : Len(Replies(i)) <= 1
    /\ att_pc = "idle" =>
          \A i \in DOMAIN att_requests : Len(Replies(i)) = 1

\* The part of C3 the code does keep: no request is answered twice, and a
\* request whose event reached the queue is answered by the time the
\* callback returns.
AttAtMostOneResponse ==
    /\ \A i \in DOMAIN att_requests : Len(Replies(i)) <= 1
    /\ att_pc = "idle" =>
          \A i \in DOMAIN att_requests :
             att_requests[i].responder # "none" => Len(Replies(i)) = 1

EventProduced(i) ==
    /\ i \in DOMAIN att_requests
    /\ att_requests[i].responder \in {"queued", "held", "dropped"}

Invoked(i) ==
    /\ i \in DOMAIN att_requests
    /\ att_requests[i].responder = "answered"

DefaultReplied(i) ==
    /\ i \in DOMAIN att_requests
    /\ Replies(i) = << "CBATTError::InvalidHandle" >>

\* C4: a ReadRequest / WriteRequest event whose responder the caller never
\* invokes eventually gets exactly one ATT reply, and it is InvalidHandle.
C4_UninvokedResponderDefaults ==
    \A i \in 1..MaxAttRequests :
       EventProduced(i) ~> (Invoked(i) \/ DefaultReplied(i))

\* What the code gives: the default reply follows once the responder has
\* been dropped (by the caller, or with the queue when the receiver goes).
DroppedResponderDefaults ==
    \A i \in 1..MaxAttRequests :
       (i \in DOMAIN att_requests /\ att_requests[i].responder = "dropped")
          ~> DefaultReplied(i)

\* ---- C9, C10: peripheral session
OperationIds ==
    {i \in DOMAIN remote_commands : remote_commands[i].kind \in OperationKinds}

InResolver(i) ==
    \E field \in {"read_resolver", "write_resolver", "subscribe_resolver"} :
       \E k \in DOMAIN peripheral[field] : peripheral[field][k] = i

\* Registered while the link that has since dropped was up.
PendingAtDisconnect(i) ==
    /\ remote_commands[i].registered
    /\ remote_commands[i].epoch < cbperipheral.disconnects

FullyDiscovered ==
    /\ Req("services", None, None) \in discovered
    /\ \A s \in DOMAIN peripheral.cached_services :
          Req("characteristics", s, None) \in discovered
    /\ \A c \in DOMAIN peripheral.cached_characteristics :
          Req("descriptors", peripheral.cached_characteristics[c][1], c)
             \in discovered

DeviceTree ==
    [s \in DeviceServices |->
       [c \in DeviceCharacteristics(s) |-> DeviceDescriptors(s, c)]]

\* The service tree as cached: service -> characteristic -> descriptors.
ServiceTree ==
    [s \in DOMAIN peripheral.cached_services |->
       [c \in {x \in DOMAIN peripheral.cached_characteristics :
                 peripheral.cached_characteristics[x][1] = s} |->
          {d \in DOMAIN peripheral.cached_descriptors :
              /\ peripheral.cached_descriptors[d][1] = s
              /\ peripheral.cached_descriptors[d][2] = c}]]

ConnectIds ==
    {i \in DOMAIN remote_commands : remote_commands[i].kind = "ConnectDevice"}

\* Discovery has run to its end on a live link and the cache holds the
\* device's whole tree.
DiscoveryDone ==
    /\ cbperipheral.state = "connected"
    /\ cbperipheral.requests = {}
    /\ corebluetooth_delegate_rx = << >>
    /\ FullyDiscovered
    /\ ServiceTree = DeviceTree

ConnectNeverEarly ==
    \A i \in ConnectIds :
       remote_commands[i].reply.result = "Ok" => FullyDiscovered

\* ---- C11, C12, C15: discovery state of the session
\* The 'connection ready' signals given so far: the Connect commands
\* answered with success (check_discovered: "send back a Connected reply to
\* the waiting future").
ReadySignals ==
    {i \in ConnectIds : remote_commands[i].reply.result = "Ok"}

\* C11: within one connection lifetime the ready signal fires exactly once,
\* when discovery first becomes complete, and never a second time.
C11_ReadyFiresOnce ==
    cbperipheral.connects = 1 =>
       /\ Cardinality(ReadySignals) <= 1
       /\ DiscoveryDone => Cardinality(ReadySignals) = 1

\* The session has nothing of the discovery left to handle.
DiscoveryQuiet ==
    /\ cbperipheral.state = "connected"
    /\ cbperipheral.requests = {}
    /\ corebluetooth_delegate_rx = << >>

\* C12: after any sequence of discovery events the session counts as fully
\* discovered (it has given its ready signal) exactly when every known
\* service has received its characteristic list and every known
\* characteristic its descriptor list.
C12_FullyDiscoveredExactlyWhen ==
    ( /\ DiscoveryQuiet
      /\ DOMAIN peripheral.cached_services # {}
      /\ \E i \in ConnectIds : remote_commands[i].registered )
       => (FullyDiscovered <=> ReadySignals # {})

CacheEmpty ==
    /\ DOMAIN peripheral.cached_services = {}
    /\ DOMAIN peripheral.cached_characteristics = {}
    /\ DOMAIN peripheral.cached_descriptors = {}

\* C15: once the peripheral has disconnected and the session has nothing
\* left to handle, the discovery cache (services, characteristics,
\* descriptors) is empty.
C15_CacheEmptiedOnDisconnect ==
    (cbperipheral.state = "disconnected" /\ corebluetooth_delegate_rx = << >>)
       => CacheEmpty

\* ---- C13: duplicate characteristics
\* The properties of the first characteristic the stack reported under this
\* UUID for the service.
RECURSIVE FirstReported(_, _)
FirstReported(chars, uuid) ==
    IF Head(chars).uuid = uuid
    THEN Head(chars).properties
    ELSE FirstReported(Tail(chars), uuid)

\* C13: when the stack reports a characteristic UUID twice for a service,
\* the cache holds one characteristic under that UUID and it is the one
\* reported first.
C13_FirstDuplicateWins ==
    \A c \in DOMAIN peripheral.cached_characteristics :
       LET cached == peripheral.cached_characteristics[c]
       IN  cached[3] = FirstReported(DeviceCharacteristicList(cached[1]), c)

\* What the code does: the one reported last is kept.
RECURSIVE LastReported(_, _)
LastReported(chars, uuid) ==
    IF chars[Len(chars)].uuid = uuid
    THEN chars[Len(chars)].properties
    ELSE LastReported(SubSeq(chars, 1, Len(chars) - 1), uuid)

LastDuplicateWins ==
    \A c \in DOMAIN peripheral.cached_characteristics :
       LET cached == peripheral.cached_characteristics[c]
       IN  cached[3] = LastReported(DeviceCharacteristicList(cached[1]), c)

\* ---- C14: a service without characteristics
\* The device reported S2 as its only service and S2's (empty)
\* characteristic list has been handled, all within the first connection.
OnlyEmptyServiceListed ==
    /\ cbperipheral.connects = 1
    /\ cbperipheral.state = "connected"
    /\ DOMAIN peripheral.cached_services = {"S2"}
    /\ Req("characteristics", "S2", None) \in discovered

\* C14: a service that reports no characteristic is discovered as soon as
\* its empty list is handled; when it is the only service, the waiting
\* Connect is answered at that moment with the tree [S2: no characteristic].
C14_EmptyServiceCompletes ==
    \A i \in ConnectIds :
       (remote_commands[i].registered /\ OnlyEmptyServiceListed) =>
          /\ remote_commands[i].reply.result = "Ok"
          /\ remote_commands[i].reply.value = ServiceTree

\* ---- C16: discovery events whose parent is not cached
\* The event names a service that is not in cached_services, or a
\* characteristic that is not in cached_characteristics.
UnknownParent(ev) ==
    \/ /\ ev.kind = "DiscoveredCharacteristics"
       /\ ev.service_uuid \notin DOMAIN peripheral.cached_services
    \/ /\ ev.kind = "DiscoveredCharacteristicDescriptors"
       /\ \/ ev.service_uuid \notin DOMAIN peripheral.cached_services
          \/ ev.characteristic_uuid
                \notin DOMAIN peripheral.cached_characteristics

\* A step of the session that takes the head of the delegate queue and no
\* command.
TakesDelegateEvent ==
    /\ session_pc = "running"
    /\ corebluetooth_delegate_rx # << >>
    /\ Len(corebluetooth_delegate_rx') < Len(corebluetooth_delegate_rx)
    /\ remote_command_rx' = remote_command_rx

\* C16: a DiscoveredCharacteristics event for a service that is not cached,
\* or a DiscoveredCharacteristicDescriptors event whose parent is not
\* cached, is handled without a panic: the loop keeps running, exactly that
\* event leaves the queue and its entries are cached.
C16_UnknownParentHandled ==
    [][ (TakesDelegateEvent /\ UnknownParent(Head(corebluetooth_delegate_rx)))
          => LET ev == Head(corebluetooth_delegate_rx) IN
             /\ session_pc' = "running"
             /\ corebluetooth_delegate_rx' = Tail(corebluetooth_delegate_rx)
             /\ ev.kind = "DiscoveredCharacteristics" =>
                   \A c \in DOMAIN ev.items :
                      c \in DOMAIN peripheral'.cached_characteristics
             /\ ev.kind = "DiscoveredCharacteristicDescriptors" =>
                   \A d \in DOMAIN ev.items :
                      d \in DOMAIN peripheral'.cached_descriptors ]_vars

\* The characteristic list of S3, a service that was never cached, has been
\* handled, and the session went on to handle the descriptor list of its
\* characteristic.
C16_Witness ==
    /\ session_pc = "running"
    /\ "S3" \notin DOMAIN peripheral.cached_services
    /\ Req("characteristics", "S3", None) \in discovered
    /\ Req("descriptors", "S3", "C1") \in discovered
    /\ "C1" \in DOMAIN peripheral.cached_characteristics
    /\ peripheral.cached_characteristics["C1"][1] = "S3"

\* ---- C17: the event loops outlive every command
\* C17: whatever command an actor receives and however it ends, the
\* actor's event loop goes on; for the peripheral session, its loop is
\* still running after every command it took.
C17_NoCommandEndsLoop == session_pc = "running"

\* ---- C18: who touches the registries
\* A step that runs on the native callback thread: the delivery of a
\* completion callback.
NativeCallbackStep ==
    /\ native_pending' # native_pending
    /\ native_pending' \subseteq native_pending

\* C18: the registries are read and changed only from the actor's loop; no
\* step on the native callback thread changes a registry.
C18_RegistriesOnlyOnActorLoop ==
    [][ NativeCallbackStep =>
          UNCHANGED << services_resolver, advertisement_resolver >> ]_vars

\* ---- C19: the bounded delegate queue
\* The native request an event answers.
RequestOf(ev) ==
    Req(CASE ev.kind = "DiscoveredServices" -> "services"
          [] ev.kind = "DiscoveredCharacteristics" -> "characteristics"
          [] ev.kind = "DiscoveredCharacteristicDescriptors" -> "descriptors",
        ev.service_uuid, ev.characteristic_uuid)

\* A step in which the callback that answers request r returns: r leaves
\* the requests in flight and nothing else changes in the native peripheral.
CallbackReturns(r) ==
    /\ r \in cbperipheral.requests
    /\ r[1] \in {"services", "characteristics", "descriptors"}
    /\ cbperipheral' = [cbperipheral EXCEPT !.requests = @ \ {r}]

\* The queue after the step is the queue before it with one event added at
\* its end.
OneAppended ==
    /\ Len(corebluetooth_delegate_rx') = Len(corebluetooth_delegate_rx) + 1
    /\ SubSeq(corebluetooth_delegate_rx', 1, Len(corebluetooth_delegate_rx))
          = corebluetooth_delegate_rx

\* C19: while the receiver is alive no event is dropped and the order is
\* kept: a callback returns only after its event was put at the end of the
\* queue, which it does only when the queue has room (until then it stays
\* suspended), and the queue changes in no other way than by an event
\* added at its end or by the consumer taking its head.
C19_NoEventDroppedFifo ==
    [][ (session_pc = "running" /\ session_pc' = "running") =>
          /\ \A r \in cbperipheral.requests :
                CallbackReturns(r) =>
                   /\ Len(corebluetooth_delegate_rx) < DelegateQueueCap
                   /\ OneAppended
                   /\ RequestOf(corebluetooth_delegate_rx'[
                                  Len(corebluetooth_delegate_rx')]) = r
          /\ \/ corebluetooth_delegate_rx' = corebluetooth_delegate_rx
             \/ OneAppended
             \/ /\ corebluetooth_delegate_rx # << >>
                /\ corebluetooth_delegate_rx' =
                     Tail(corebluetooth_delegate_rx) ]_vars

\* The queue is full, the receiver is alive and a callback with an event
\* to deliver is held back.
C19_Witness ==
    /\ session_pc = "running"
    /\ Len(corebluetooth_delegate_rx) = DelegateQueueCap
    /\ \E r \in cbperipheral.requests :
          r[1] \in {"services", "characteristics", "descriptors"}

\* ---- C20: native callbacks do not wait for the application
\* C20: an ATT indication callback that has been entered can always go on
\* by a step of its own and return; it is never held until the application
\* acts, neither for room in the event queue nor for the responder to be
\* used or dropped.
C20_CallbackNeverWaitsOnCaller ==
    /\ att_pc = "send" =>
          (event_rx = "closed" \/ Len(events) < EventQueueCap)
    /\ att_pc = "await" =>
          att_requests[CurReq].responder \in {"answered", "dropped"}

\* ---- C21: the native result reaches the caller verbatim
\* C21: a StartAdvertising or AddService whose wait was ended by the
\* completion callback that took its sender replies what the callback
\* carried: success when it carried no error, otherwise an error whose
\* description is the native error's description.
C21_NativeResultVerbatim ==
    \A n \in Finished :
       LET c == chan[cmds[n].ch] IN
       (c.takers = {"callback"} /\ cmds[n].wake = "value") =>
          /\ c.val = NoError => cmds[n].reply = "Ok"
          /\ c.val # NoError => cmds[n].reply = c.val

\* Both outcomes happened: one command failed with the native description
\* and one succeeded.
C21_Witness ==
    /\ \E n \in Finished :
          /\ cmds[n].wake = "value"
          /\ chan[cmds[n].ch].val = NativeErr
          /\ cmds[n].reply = NativeErr
    /\ \E n \in Finished :
          /\ cmds[n].wake = "value"
          /\ chan[cmds[n].ch].val = NoError
          /\ cmds[n].reply = "Ok"

\* ---- C22: read and write completions reach the session
\* The native callback that answers the read or write request r returns in
\* this step.
CompletionReturns(r) ==
    /\ r \in cbperipheral.requests
    /\ r[1] \in {"ReadCharacteristicValue", "WriteCharacteristicValue"}
    /\ cbperipheral' = [cbperipheral EXCEPT !.requests = @ \ {r}]

\* C22: while the session runs, every completion callback of a
\* characteristic read or write, with or without an error, puts an event
\* for that characteristic on the session's queue, so that the session can
\* resolve the pending operation.
C22_CompletionReachesSession ==
    [][ session_pc = "running" =>
          \A r \in cbperipheral.requests :
             CompletionReturns(r) =>
                /\ Len(corebluetooth_delegate_rx') =
                      Len(corebluetooth_delegate_rx) + 1
                /\ corebluetooth_delegate_rx'[
                      Len(corebluetooth_delegate_rx')].characteristic_uuid
                      = r[3] ]_vars

\* ---- C23: UpdateCharacteristic for an unknown characteristic
\* C23: an UpdateCharacteristic that names a characteristic which is not
\* in the actor's cache of published characteristics is answered with a
\* NotFound error, and no native update is made for it.
C23_UnknownCharacteristicNotFound ==
    \A n \in DOMAIN cmds :
       ( /\ cmds[n].kind = "UpdateCharacteristic"
         /\ cmds[n].key \notin cached_characteristics )
          => /\ cmds[n].reply = "NotFound"
             /\ ~cmds[n].native

\* ---- C24: session commands register before the native request
\* The commands of a peripheral session that wait for a native completion.
RegisteringKinds ==
    {"ConnectDevice", "DisconnectDevice", "ReadCharacteristicValue",
     "WriteCharacteristicValue", "SubscribeCharacteristic",
     "UnsubscribeCharacteristic", "ReadDescriptorValue",
     "WriteDescriptorValue"}

\* C24: when the session takes one of these commands it either registers
\* the command's pending operation, and only then is a native request in
\* flight for it, or, the key being registered already, it answers
\* already-in-progress and issues no native request.
C24_RegistersBeforeRequest ==
    [][ ( /\ session_pc = "running"
          /\ remote_command_rx # << >>
          /\ Len(remote_command_rx') < Len(remote_command_rx)
          /\ remote_commands[Head(remote_command_rx)].kind
                \in RegisteringKinds )
          => LET id == Head(remote_command_rx) IN
             \/ remote_commands'[id].registered
             \/ /\ remote_commands'[id].reply.result = "Err"
                /\ remote_commands'[id].reply.value = "Already in progress"
                /\ cbperipheral' = cbperipheral ]_vars


\* The events the callback of each lifecycle kind stands for.
LifecycleEvent(kind) ==
    CASE kind = "didUpdateState" -> "StateUpdate"
      [] kind = "didConnectPeripheral" -> "DeviceConnected"
      [] kind = "didDisconnectPeripheral" -> "DeviceDisconnected"
      [] kind = "didFailToConnectPeripheral" -> "DeviceConnectionFailed"

\* One event per advertisement fragment present in the dictionary.
FragmentEvents(adv_data) ==
    (IF adv_data.has_manufacturer
     THEN << "ManufacturerDataAdvertisement" >> ELSE << >>)
      \o (IF adv_data.has_service_data
          THEN << "ServiceDataAdvertisement" >> ELSE << >>)
      \o (IF adv_data.has_services
          THEN << "ServicesAdvertisement" >> ELSE << >>)

\* One event per fragment, the manufacturer data counted only when it holds
\* the two bytes of the manufacturer id.
UsableFragmentEvents(adv_data) ==
    FragmentEvents([adv_data EXCEPT !.has_manufacturer =
                        @ /\ adv_data.manufacturer_len >= 2])

RECURSIVE EventsOfCallbacks(_, _)
EventsOfCallbacks(callbacks, usable_only) ==
    IF callbacks = << >>
    THEN << >>
    ELSE LET callback == Head(callbacks)
         IN (IF callback.kind = "didDiscoverPeripheral"
             THEN << "DeviceDiscovered" >>
                    \o (IF usable_only
                        THEN UsableFragmentEvents(callback.adv_data)
                        ELSE FragmentEvents(callback.adv_data))
             ELSE << LifecycleEvent(callback.kind) >>)
              \o EventsOfCallbacks(Tail(callbacks), usable_only)

C26_AtMostOneActor ==
    \A kind \in ActorKinds :
        /\ Len(actor_threads[kind]) <= 1
        /\ \A i \in 1..Len(actor_threads[kind]) :
             /\ run_calls[actor_threads[kind][i].channels].kind = kind
             /\ ~run_calls[actor_threads[kind][i].channels].started_after_return
        /\ \A run_call \in 1..Len(run_calls) :
             (run_calls[run_call].kind = kind /\ run_calls[run_call].pc = "returned")
                => Len(actor_threads[kind]) = 1

\* C26 witness: three calls for the peripheral actor have returned, one of
\* them made after another had returned, and the one actor serves the
\* channels of the first.
C26_Witness ==
    /\ Len(run_calls) = 3
    /\ \A run_call \in 1..3 :
         run_calls[run_call].kind = "peripheral" /\ run_calls[run_call].pc = "returned"
    /\ run_calls[3].started_after_return
    /\ Len(actor_threads["peripheral"]) = 1
    /\ actor_threads["peripheral"][1].state = "serving"
    /\ actor_threads["peripheral"][1].channels = 1


\* C27: a completion of StartAdvertising or AddService that is delivered
\* after the native request was issued and before the wait of its command
\* ended finds the command's registration: the callback's take never runs
\* before the registration exists, so the completion is not lost.
C27_CompletionFindsRegistration ==
    \A d \in delivered :
        d.phase \in {"adv_issued", "adv_wait", "svc_issued", "svc_wait"}
            => d.found # NoSender


C29_DequeueFindsResolversEmpty ==
    [][Len(cmds') > Len(cmds) =>
          /\ ~AdvertisementResolver_is_waiting(advertisement_resolver)
          /\ ServiceResolver_count(services_resolver) = 0]_vars

\* C29 witness: an AddService ended by its deadline and a command was
\* dequeued after it.
C29_Witness ==
    /\ Len(cmds) = 2
    /\ cmds[1].kind = "AddService"
    /\ cmds[1].reply = "Timeout waiting for event"
    /\ cmds[2].kind \in {"StartAdvertising", "AddService"}
    /\ cmds[2].native


\* The characteristics the session caches for a service: the cached
\* objects whose service is this one.
CachedCharacteristicsOf(p, service) ==
    {p.cached_characteristics[c] :
        c \in {k \in DOMAIN p.cached_characteristics :
                 p.cached_characteristics[k][1] = service}}

\* C30: when the session handles a DiscoveredCharacteristics event for a
\* service, the characteristics cached for that service become exactly the
\* event's set, and the characteristics cached for every other service are
\* unchanged, also when two services have a characteristic of one UUID.
C30_SetReplacedOthersKept ==
    [][ ( /\ DelegateHead("DiscoveredCharacteristics")
          /\ corebluetooth_delegate_rx' = Tail(corebluetooth_delegate_rx)
          /\ session_pc' = "running" )
          => LET ev == Head(corebluetooth_delegate_rx) IN
             /\ CachedCharacteristicsOf(peripheral', ev.service_uuid)
                   = {ev.items[c] : c \in DOMAIN ev.items}
             /\ \A s \in AllServices \ {ev.service_uuid} :
                   CachedCharacteristicsOf(peripheral', s)
                      = CachedCharacteristicsOf(peripheral, s) ]_vars


\* ---- C31: the requests the session issues on a discovery event
\* The session takes a discovery event from the delegate's queue and goes on.
HandlesDiscoveryEvent ==
    /\ session_pc = "running"
    /\ session_pc' = "running"
    /\ corebluetooth_delegate_rx # << >>
    /\ corebluetooth_delegate_rx' = Tail(corebluetooth_delegate_rx)
    /\ cbperipheral.state = "connected"

NamesakeCode ==
    [c \in RequestResponse |->
        CASE c = "Success" -> "CBATTError::Success"
          [] c = "InvalidHandle" -> "CBATTError::InvalidHandle"
          [] c = "RequestNotSupported" -> "CBATTError::RequestNotSupported"
          [] c = "InvalidOffset" -> "CBATTError::InvalidOffset"
          [] c = "UnlikelyError" -> "CBATTError::UnlikelyError"]

\* C32: a request that the caller answered with result code c and that has
\* been replied to got a single reply, which carries the native code named
\* after c; for a read the request's value is then the caller's value.
C32_ReplyCarriesCallerCode ==
    \A i \in DOMAIN att_requests :
        (att_requests[i].responder = "answered" /\ att_requests[i].replies # << >>)
            => /\ att_requests[i].replies = << NamesakeCode[att_requests[i].answer] >>
               /\ att_requests[i].kind = "read" =>
                     att_requests[i].value = att_requests[i].answer_value

\* C32 witness: a read answered InvalidOffset with value v2 and a write
\* answered RequestNotSupported have been replied to.
C32_Witness ==
    \E i, j \in DOMAIN att_requests :
        /\ att_requests[i].kind = "read"
        /\ att_requests[i].answer = "InvalidOffset"
        /\ att_requests[i].answer_value = "v2"
        /\ att_requests[i].replies # << >>
        /\ att_requests[j].kind = "write"
        /\ att_requests[j].answer = "RequestNotSupported"
        /\ att_requests[j].replies # << >>


\* ---- C33: a failed AddService leaves the characteristic cache alone
\* C33: an AddService that returned an error has left the actor's cache of
\* published characteristics as it was: every cached characteristic belongs
\* to a service whose AddService returned success or is still in hand.
C33_FailedAddServiceKeepsCache ==
    \A c \in cached_characteristics :
        \E n \in DOMAIN cmds :
            /\ cmds[n].kind = "AddService"
            /\ c \in ServiceCharacteristics(cmds[n].key)
            /\ cmds[n].reply \in {"Ok", "NoReply"}


\* ---- C34: the requests of a write batch are handled one after the other
\* A request whose event was emitted and that has no ATT reply yet.
AwaitsCaller(i) ==
    /\ att_requests[i].responder \in {"queued", "held", "answered", "dropped"}
    /\ att_requests[i].replies = << >>

\* C34: the events of a batch are emitted in batch order, the event of a
\* request only after the ATT reply of the request before it in the batch
\* was sent; at most one request awaits its caller at any time.
C34_BatchHandledInOrder ==
    [][ /\ Len(events') > Len(events) =>
            /\ events' = Append(events, att_batch[att_idx])
            /\ \A j \in 1..Len(att_batch) :
                 /\ j < att_idx => att_requests[att_batch[j]].replies # << >>
                 /\ j >= att_idx => att_requests[att_batch[j]].responder = "none"
        /\ Cardinality({i \in DOMAIN att_requests' : AwaitsCaller(i)'}) <= 1 ]_vars

\* C34 witness: in a batch of two writes the first request was replied to
\* and the caller holds the responder of the second.
C34_Witness ==
    /\ att_pc = "await"
    /\ Len(att_batch) = 2
    /\ att_idx = 2
    /\ att_requests[att_batch[1]].kind = "write"
    /\ att_requests[att_batch[1]].replies # << >>
    /\ att_requests[att_batch[2]].responder = "held"


\* ---- C35: the order of the events of one device-discovered callback
\* The place of each event of a discovery in the claimed order.
DiscoveryEventRank(event) ==
    CASE event = "DeviceDiscovered" -> 0
      [] event = "ManufacturerDataAdvertisement" -> 1
      [] event = "ServiceDataAdvertisement" -> 2
      [] event = "ServicesAdvertisement" -> 3
      [] OTHER -> 4

\* C35: the events a device-discovered callback emits begin with
\* DeviceDiscovered and go on with the manufacturer data event, the service
\* data event and the service list event in that order, each at most once
\* and only when its fragment is present.
C35_DiscoveryEventsInOrder ==
    [][ ( /\ Len(central_callbacks') = Len(central_callbacks) + 1
          /\ central_callbacks'[Len(central_callbacks')].kind
                = "didDiscoverPeripheral" )
          => LET adv_data == central_callbacks'[Len(central_callbacks')].adv_data
                 emitted == SubSeq(central_tx', Len(central_tx) + 1,
                                   Len(central_tx'))
             IN
             /\ SubSeq(central_tx', 1, Len(central_tx)) = central_tx
             /\ emitted # << >> => emitted[1] = "DeviceDiscovered"
             /\ \A i, j \in DOMAIN emitted :
                   i < j => DiscoveryEventRank(emitted[i])
                               < DiscoveryEventRank(emitted[j])
             /\ \A i \in DOMAIN emitted :
                   /\ DiscoveryEventRank(emitted[i]) < 4
                   /\ emitted[i] = "ManufacturerDataAdvertisement"
                         => adv_data.has_manufacturer
                   /\ emitted[i] = "ServiceDataAdvertisement"
                         => adv_data.has_service_data
                   /\ emitted[i] = "ServicesAdvertisement"
                         => adv_data.has_services ]_vars

\* C35 witness: a peripheral advertising all three fragments was
\* discovered after another callback, and its four events were emitted.
C35_Witness ==
    /\ Len(central_callbacks) = 2
    /\ central_callbacks[1].kind = "didUpdateState"
    /\ central_callbacks[2].kind = "didDiscoverPeripheral"
    /\ central_tx = << "StateUpdate", "DeviceDiscovered",
                       "ManufacturerDataAdvertisement",
                       "ServiceDataAdvertisement", "ServicesAdvertisement" >>

\* ---- C36: the manufacturer id and data of a manufacturer data event
\* What the claim expects of the callbacks so far: a payload for each
\* advertisement with manufacturer data of two bytes or more, its id the
\* first byte plus 256 times the second, its data the bytes after them.
RECURSIVE ClaimedManufacturerPayloads(_)
ClaimedManufacturerPayloads(callbacks) ==
    IF callbacks = << >>
    THEN << >>
    ELSE LET adv_data == Head(callbacks).adv_data
             bytes == adv_data.manufacturer_data
         IN (IF /\ Head(callbacks).kind = "didDiscoverPeripheral"
                /\ adv_data.has_manufacturer
                /\ Len(bytes) >= 2
             THEN << [manufacturer_id |-> bytes[1] + 256 * bytes[2],
                      manufacturer_data |->
                         [i \in 1..(Len(bytes) - 2) |-> bytes[i + 2]]] >>
             ELSE << >>)
              \o ClaimedManufacturerPayloads(Tail(callbacks))

\* The manufacturer data events among the public events.
ManufacturerEventCount ==
    Cardinality({i \in DOMAIN central_tx :
                    central_tx[i] = "ManufacturerDataAdvertisement"})

\* C36: a manufacturer data event is emitted exactly for the discovered
\* advertisements whose manufacturer data has two bytes or more, with the
\* little-endian id of the first two bytes and the remaining bytes as data.
C36_ManufacturerIdLittleEndian ==
    /\ manufacturer_payloads = ClaimedManufacturerPayloads(central_callbacks)
    /\ ManufacturerEventCount = Len(manufacturer_payloads)

\* C36 witness: manufacturer data 1, 0, 255 gave id 1 with data 255, and
\* manufacturer data 255, 1 gave id 511 with no data.
C36_Witness ==
    /\ Len(central_callbacks) = 2
    /\ central_callbacks[1].adv_data.manufacturer_data = << 1, 0, 255 >>
    /\ central_callbacks[2].adv_data.manufacturer_data = << 255, 1 >>
    /\ manufacturer_payloads =
          << [manufacturer_id |-> 1, manufacturer_data |-> << 255 >>],
             [manufacturer_id |-> 511, manufacturer_data |-> << >>] >>


\* ---- C37: the actor's loop on a closed command queue
\* C37: once every sender of its command queue is dropped and the queue is
\* empty, the event loop of the peripheral-role actor stops: it makes no
\* further iteration on the closed queue.
C37_LoopStopsOnClosedQueue ==
    \A i \in 1..Len(actor_threads["peripheral"]) :
        actor_threads["peripheral"][i].command_tx = "closed"
            => actor_threads["peripheral"][i].closed_polls = 0


\* The CentralState variant that bears the name of a native state; Unknown
\* for a native value without a name.
NamesakeState(cb_state) ==
    CASE cb_state = "CBManagerStateUnknown" -> "Unknown"
      [] cb_state = "CBManagerStateResetting" -> "Resetting"
      [] cb_state = "CBManagerStateUnsupported" -> "Unsupported"
      [] cb_state = "CBManagerStateUnauthorized" -> "Unauthorized"
      [] cb_state = "CBManagerStatePoweredOff" -> "PoweredOff"
      [] cb_state = "CBManagerStatePoweredOn" -> "PoweredOn"
      [] OTHER -> "Unknown"

\* C38: every state-changed callback sends one StateUpdate and nothing
\* else, and the state it carries is a variant of CentralState, the one
\* that bears the name of the native state (Unknown for any other value).
C38_StateUpdateCarriesNamesake ==
    /\ Len(central_tx) = Len(state_updates)
    /\ \A i \in 1..Len(central_tx) : central_tx[i] = "StateUpdate"
    /\ \A i \in 1..Len(state_updates) :
          /\ state_updates[i].state = NamesakeState(state_updates[i].native)
          /\ state_updates[i].state \in CentralState

====
